---- MODULE Spec2Model ----
(***************************************************************************)
(* Model of the schema-driven decode / transform / materialize pipeline    *)
(* and of the output contract engine of message-pack-parser.               *)
(*                                                                         *)
(* Values are records [k, n, d, s]: k is the Python kind ("none", "int",   *)
(* "bool", "str", "float", "enum", "obj"), n/d the number as a fraction    *)
(* (floats are kept as exact fractions n/d), s the text of a string or     *)
(* the name of an enum member.                                             *)
(*                                                                         *)
(* The pipeline is the serial one (_run_serial_pipeline): a step consumes  *)
(* the whole output of the step before it, for one aspect file.            *)
(***************************************************************************)
EXTENDS Integers, Sequences, FiniteSets, TLC

\* ---------------------------------------------------------------- bounds
\* longest blob (rows) of the pipeline specification
MaxRows == 3

\* how many values beyond the arity an over-length record carries
MaxExtra == 1

\* most rows of a table handed to the output contract engine
MaxTableRows == 3
MaxStreamRows == 2

\* most rows of a probe table handed to an output strategy
MaxEncodeRows == 2

\* most rows of an aspect table handed to an output strategy
MaxAspectRows == 1

\* most .mpk files the input directories hold
MaxFiles == 2

\* most records an .mpk file holds
MaxFileRecords == 1

\* most stat names a call of perform_aggregations requests
MaxRequests == 2

\* aspects in raw_mpk_data handed to the parallel pipeline
MaxAspects == 3

\* the values of a record, in thousands, a tag is tried on
MaxTagValue == 2

\* rows of a List(Struct) column handed to the encoder
MaxStructRows == 3

\* ---------------------------------------------------------------- values
VNone == [k |-> "none", n |-> 0, d |-> 1, s |-> ""]

VInt(i) == [k |-> "int", n |-> i, d |-> 1, s |-> ""]

VBool(b) == [k |-> "bool", n |-> (IF b THEN 1 ELSE 0), d |-> 1, s |-> ""]

VStr(t) == [k |-> "str", n |-> 0, d |-> 1, s |-> t]

VFloat(num, den) == [k |-> "float", n |-> num, d |-> den, s |-> ""]

EnumMember(code, name) == [k |-> "enum", n |-> code, d |-> 1, s |-> name]

\* a decoded top-level msgpack object: a list of values, or something else
ListRow(items) == [is_list |-> TRUE, items |-> items]

NotAListRow == [is_list |-> FALSE, items |-> << >>]

\* ---------------------------------------------------------------- enums
CommandsEnum ==
  << "BUILD", "ATTACK", "CAPTURE", "FIGHT", "GUARD", "LOAD_UNITS",
     "MANUAL_FIRE", "MOVE", "PATROL", "RECLAIM", "REPAIR", "RESURRECT",
     "STOP", "UNLOAD_UNITS", "WAIT" >>

ConstructionActionsEnum ==
  << "CONSTRUCTION_START", "CONSTRUCTION_SNAPSHOT", "CONSTRUCTION_END",
     "ASSIST_START", "ASSIST_SNAPSHOT", "ASSIST_END" >>

UnitEconomyEventsEnum == << "PRODUCTION_STARTED", "SNAPSHOT", "DESTROYED" >>

UnitEventsEnum == << "CREATED", "FINISHED", "DESTROYED", "GIVEN", "TAKEN" >>

\* enum key -> member names, the member at position c has the code c
ENUM_REGISTRY ==
  [ UnitEventsEnum |-> UnitEventsEnum,
    CommandsEnum |-> CommandsEnum,
    ConstructionActionsEnum |-> ConstructionActionsEnum,
    UnitEconomyEventsEnum |-> UnitEconomyEventsEnum ]

\* enum_class(raw_val): the member with that code, or ValueError
EnumHasCode(enum_key, code) == code \in 1..Len(ENUM_REGISTRY[enum_key])

EnumOf(enum_key, code) == EnumMember(code, ENUM_REGISTRY[enum_key][code])

\* ---------------------------------------------------- raw schema registry
\* a raw field: name, declared type, Optional or not, and its metadata tags
\* (dequantize_by: 0 when untagged; enum_map: clean field "" when untagged)
RF(name, type, opt) ==
  [name |-> name, type |-> type, opt |-> opt, dequantize_by |-> 0,
   enum_clean |-> "", enum_key |-> ""]

RFD(name, divisor) ==
  [name |-> name, type |-> "int", opt |-> FALSE, dequantize_by |-> divisor,
   enum_clean |-> "", enum_key |-> ""]

RFE(name, clean, enum_key) ==
  [name |-> name, type |-> "int", opt |-> FALSE, dequantize_by |-> 0,
   enum_clean |-> clean, enum_key |-> enum_key]

Commands_log_Schema_Raw ==
  << RF("frame", "int", FALSE), RF("teamId", "int", FALSE),
     RF("unitId", "int", FALSE), RFE("cmd_id", "cmd_name", "CommandsEnum"),
     RF("cmd_tag", "int", FALSE), RF("target_unit_id", "int", TRUE),
     RF("x", "int", FALSE), RF("y", "int", FALSE), RF("z", "int", FALSE) >>

Construction_log_Schema_Raw ==
  << RF("frame", "int", FALSE),
     RFE("event", "event", "ConstructionActionsEnum"),
     RF("builder_unit_id", "int", FALSE),
     RF("builder_unit_def_id", "int", FALSE),
     RF("builder_player_id", "int", FALSE),
     RF("target_unit_id", "int", FALSE),
     RF("target_unit_def_id", "int", FALSE),
     RF("target_player_id", "int", TRUE),
     RFD("buildpower", 1000) >>

Team_stats_Schema_Raw ==
  << RF("frame", "int", FALSE), RF("team_id", "int", FALSE),
     RFD("metal_used", 10), RFD("metal_produced", 10),
     RFD("metal_excess", 10), RFD("metal_received", 10),
     RFD("metal_sent", 10), RFD("energy_used", 10),
     RFD("energy_produced", 10), RFD("energy_excess", 10),
     RFD("energy_received", 10), RFD("energy_sent", 10),
     RFD("damage_dealt", 10), RFD("damage_received", 10),
     RF("units_killed", "int", FALSE), RF("units_died", "int", FALSE),
     RF("units_captured", "int", FALSE),
     RF("units_out_captured", "int", FALSE),
     RF("units_received", "int", FALSE), RF("units_sent", "int", FALSE),
     RF("max_units", "int", FALSE), RF("current_unit_count", "int", FALSE),
     RFD("metal_current", 10), RFD("metal_storage", 10),
     RFD("metal_pull", 10), RFD("metal_income", 10),
     RFD("metal_expense", 10), RFD("metal_share", 10),
     RFD("metal_Rsent", 10), RFD("metal_Rreceived", 10),
     RFD("metal_Rexcess", 10), RFD("energy_current", 10),
     RFD("energy_storage", 10), RFD("energy_pull", 10),
     RFD("energy_income", 10), RFD("energy_expense", 10),
     RFD("energy_share", 10), RFD("energy_Rsent", 10),
     RFD("energy_Rreceived", 10), RFD("energy_Rexcess", 10) >>

Unit_economy_Schema_Raw ==
  << RF("frame", "int", FALSE), RF("unit_id", "int", FALSE),
     RF("unit_def_id", "int", FALSE), RF("team_id", "int", FALSE),
     RFE("event_type", "event_type", "UnitEconomyEventsEnum"),
     RFD("metal_make", 10), RFD("metal_use", 10),
     RFD("energy_make", 10), RFD("energy_use", 10) >>

Unit_events_Schema_Raw ==
  << RF("frame", "int", FALSE), RF("unit_id", "int", FALSE),
     RF("unitDefID", "int", TRUE), RF("unit_team_id", "int", FALSE),
     RF("x", "int", FALSE), RF("y", "int", FALSE), RF("z", "int", TRUE),
     RF("attacker_unit_id", "int", TRUE),
     RF("attacker_unit_def_id", "int", TRUE),
     RF("attacker_team_id", "int", TRUE),
     RFE("event_type", "event_type", "UnitEventsEnum"),
     RF("old_team_id", "int", TRUE), RF("new_team_id", "int", TRUE),
     RF("builder_id", "int", TRUE), RF("factory_queue_len", "int", TRUE) >>

Unit_positions_Schema_Raw ==
  << RF("frame", "int", FALSE), RF("unit_id", "int", FALSE),
     RF("unit_def_id", "int", FALSE), RF("team_id", "int", FALSE),
     RF("x", "int", FALSE), RF("y", "int", FALSE), RF("z", "int", FALSE),
     RFD("vx", 1000), RFD("vy", 1000), RFD("vz", 1000),
     RF("heading", "int", FALSE) >>

Unit_state_snapshots_Schema_Raw ==
  << RF("frame", "int", FALSE), RF("unit_id", "int", FALSE),
     RF("team_id", "int", FALSE), RF("currentHealth", "int", FALSE),
     RF("currentMaxHealth", "int", FALSE), RFD("experience", 1000),
     RF("is_being_built", "bool", FALSE), RF("is_stunned", "bool", FALSE),
     RF("is_cloaked", "bool", FALSE),
     RF("is_transporting_count", "int", FALSE),
     RF("current_max_range", "int", FALSE), RF("is_firing", "bool", FALSE) >>

Damage_log_Schema_Raw ==
  << RF("frame", "int", FALSE), RF("victim_team_id", "int", FALSE),
     RF("attacker_team_id", "int", TRUE), RF("victim_unit_id", "int", FALSE),
     RF("victim_def_id", "int", FALSE), RF("attacker_unit_id", "int", TRUE),
     RF("attacker_def_id", "int", TRUE), RF("weapon_def_id", "int", FALSE),
     RF("projectile_id", "int", FALSE), RF("damage", "int", FALSE),
     RF("is_paralyzer", "bool", FALSE), RF("victim_pos_x", "int", FALSE),
     RF("victim_pos_y", "int", FALSE), RF("victim_pos_z", "int", FALSE) >>

Map_envir_econ_Schema_Raw ==
  << RF("frame", "int", FALSE), RF("wind_strength", "int", FALSE),
     RF("tidal_strength", "int", FALSE) >>

Start_pos_Schema_Raw ==
  << RF("player_id", "int", FALSE), RF("player_name", "str", FALSE),
     RF("commander_def_name", "str", FALSE), RF("unit_def_id", "int", FALSE),
     RF("x", "int", FALSE), RF("y", "int", FALSE), RF("z", "int", FALSE) >>

ASPECT_TO_RAW_SCHEMA_MAP ==
  [ commands_log |-> Commands_log_Schema_Raw,
    construction_log |-> Construction_log_Schema_Raw,
    damage_log |-> Damage_log_Schema_Raw,
    map_envir_econ |-> Map_envir_econ_Schema_Raw,
    start_pos |-> Start_pos_Schema_Raw,
    team_stats |-> Team_stats_Schema_Raw,
    unit_economy |-> Unit_economy_Schema_Raw,
    unit_events |-> Unit_events_Schema_Raw,
    unit_positions |-> Unit_positions_Schema_Raw,
    unit_state_snapshots |-> Unit_state_snapshots_Schema_Raw ]


\* -------------------------------------------------- clean schema registry
\* a clean field: name, type, Optional or not, required (declared without a
\* default) or not, and the enum kind of an enum-typed field
CF(name, type, opt) ==
  [name |-> name, type |-> type, opt |-> opt, required |-> ~opt,
   enum_key |-> ""]

CFE(name, enum_key, opt) ==
  [name |-> name, type |-> "enum", opt |-> opt, required |-> TRUE,
   enum_key |-> enum_key]

Commands_log_Schema ==
  << CF("frame", "int", FALSE), CF("teamId", "int", FALSE),
     CF("unitId", "int", FALSE), CF("cmd_id", "int", FALSE),
     CFE("cmd_name", "CommandsEnum", TRUE), CF("cmd_tag", "int", FALSE),
     CF("target_unit_id", "int", TRUE), CF("x", "int", FALSE),
     CF("y", "int", FALSE), CF("z", "int", FALSE) >>

Construction_log_Schema ==
  << CF("frame", "int", FALSE),
     CFE("event", "ConstructionActionsEnum", FALSE),
     CF("builder_unit_id", "int", FALSE),
     CF("builder_unit_def_id", "int", FALSE),
     CF("builder_player_id", "int", FALSE),
     CF("target_unit_id", "int", FALSE),
     CF("target_unit_def_id", "int", FALSE),
     CF("target_player_id", "int", TRUE), CF("buildpower", "float", FALSE) >>

Unit_economy_Schema ==
  << CF("frame", "int", FALSE), CF("unit_id", "int", FALSE),
     CF("unit_def_id", "int", FALSE), CF("team_id", "int", FALSE),
     CFE("event_type", "UnitEconomyEventsEnum", FALSE),
     CF("metal_make", "float", FALSE), CF("metal_use", "float", FALSE),
     CF("energy_make", "float", FALSE), CF("energy_use", "float", FALSE) >>

Unit_events_Schema ==
  << CF("frame", "int", FALSE), CF("unit_id", "int", FALSE),
     CF("unitDefID", "int", TRUE), CF("unit_team_id", "int", TRUE),
     CF("x", "int", FALSE), CF("y", "int", FALSE), CF("z", "int", FALSE),
     CF("attacker_unit_id", "int", TRUE),
     CF("attacker_unit_def_id", "int", TRUE),
     CF("attacker_team_id", "int", TRUE),
     CFE("event_type", "UnitEventsEnum", FALSE),
     CF("old_team_id", "int", TRUE), CF("new_team_id", "int", TRUE),
     CF("builder_id", "int", TRUE), CF("factory_queue_len", "int", TRUE) >>

Damage_log_Schema ==
  << CF("frame", "int", FALSE), CF("victim_team_id", "int", FALSE),
     CF("attacker_team_id", "int", TRUE), CF("victim_unit_id", "int", FALSE),
     CF("victim_def_id", "int", FALSE), CF("attacker_unit_id", "int", TRUE),
     CF("attacker_def_id", "int", TRUE), CF("weapon_def_id", "int", FALSE),
     CF("projectile_id", "int", FALSE), CF("damage", "int", FALSE),
     CF("is_paralyzer", "bool", FALSE), CF("victim_pos_x", "int", FALSE),
     CF("victim_pos_y", "int", FALSE), CF("victim_pos_z", "int", FALSE) >>

Map_envir_econ_Schema ==
  << CF("frame", "int", FALSE), CF("wind_strength", "int", FALSE),
     CF("tidal_strength", "int", FALSE) >>

Start_pos_Schema ==
  << CF("player_id", "int", FALSE), CF("player_name", "str", FALSE),
     CF("commander_def_name", "str", FALSE), CF("unit_def_id", "int", FALSE),
     CF("x", "int", FALSE), CF("y", "int", FALSE), CF("z", "int", FALSE) >>

Team_stats_Schema ==
  << CF("frame", "int", FALSE), CF("team_id", "int", FALSE),
     CF("metal_used", "float", FALSE), CF("metal_produced", "float", FALSE),
     CF("metal_excess", "float", FALSE), CF("metal_received", "float", FALSE),
     CF("metal_sent", "float", FALSE), CF("energy_used", "float", FALSE),
     CF("energy_produced", "float", FALSE),
     CF("energy_excess", "float", FALSE),
     CF("energy_received", "float", FALSE), CF("energy_sent", "float", FALSE),
     CF("damage_dealt", "float", FALSE),
     CF("damage_received", "float", FALSE),
     CF("units_killed", "int", FALSE), CF("units_died", "int", FALSE),
     CF("units_captured", "int", FALSE),
     CF("units_out_captured", "int", FALSE),
     CF("units_received", "int", FALSE), CF("units_sent", "int", FALSE),
     CF("max_units", "int", FALSE), CF("current_unit_count", "int", FALSE),
     CF("metal_current", "float", FALSE), CF("metal_storage", "float", FALSE),
     CF("metal_pull", "float", FALSE), CF("metal_income", "float", FALSE),
     CF("metal_expense", "float", FALSE), CF("metal_share", "float", FALSE),
     CF("metal_Rsent", "float", FALSE), CF("metal_Rreceived", "float", FALSE),
     CF("metal_Rexcess", "float", FALSE),
     CF("energy_current", "float", FALSE),
     CF("energy_storage", "float", FALSE), CF("energy_pull", "float", FALSE),
     CF("energy_income", "float", FALSE),
     CF("energy_expense", "float", FALSE), CF("energy_share", "float", FALSE),
     CF("energy_Rsent", "float", FALSE),
     CF("energy_Rreceived", "float", FALSE),
     CF("energy_Rexcess", "float", FALSE) >>

Unit_positions_Schema ==
  << CF("frame", "int", FALSE), CF("unit_id", "int", FALSE),
     CF("unit_def_id", "int", FALSE), CF("team_id", "int", FALSE),
     CF("x", "int", FALSE), CF("y", "int", FALSE), CF("z", "int", FALSE),
     CF("vx", "float", FALSE), CF("vy", "float", FALSE),
     CF("vz", "float", FALSE), CF("heading", "int", FALSE) >>

Unit_state_snapshots_Schema ==
  << CF("frame", "int", FALSE), CF("unit_id", "int", FALSE),
     CF("team_id", "int", FALSE), CF("currentHealth", "int", FALSE),
     CF("currentMaxHealth", "int", FALSE), CF("experience", "float", FALSE),
     CF("is_being_built", "bool", FALSE), CF("is_stunned", "bool", FALSE),
     CF("is_cloaked", "bool", FALSE),
     CF("is_transporting_count", "int", FALSE),
     CF("current_max_range", "int", FALSE), CF("is_firing", "bool", FALSE) >>

ASPECT_TO_CLEAN_SCHEMA_MAP ==
  [ commands_log |-> Commands_log_Schema,
    construction_log |-> Construction_log_Schema,
    damage_log |-> Damage_log_Schema,
    map_envir_econ |-> Map_envir_econ_Schema,
    start_pos |-> Start_pos_Schema,
    team_stats |-> Team_stats_Schema,
    unit_economy |-> Unit_economy_Schema,
    unit_events |-> Unit_events_Schema,
    unit_positions |-> Unit_positions_Schema,
    unit_state_snapshots |-> Unit_state_snapshots_Schema ]

PYDANTIC_TO_POLARS_TYPE_MAP ==
  [ int |-> "Int64", float |-> "Float64", bool |-> "Boolean", str |-> "Utf8" ]

\* ------------------------------------------------------------- helpers
FieldNames(cls) == { cls[i].name : i \in 1..Len(cls) }

FieldIndex(cls, name) == CHOOSE i \in 1..Len(cls) : cls[i].name = name

\* the empty mapping
EmptyDict == [x \in {} |-> VNone]

\* dict.pop(key) / dict[key] = value
DictPop(dct, key) == [x \in (DOMAIN dct) \ {key} |-> dct[x]]

DictSet(dct, key, val) ==
  [x \in (DOMAIN dct) \cup {key} |-> IF x = key THEN val ELSE dct[x]]


\* ----------------------------------------------------- raw validation
\* pydantic (lax mode) check of one value against a raw field's type
RawFieldAccepts(f, v) ==
  CASE v.k = "none" -> f.opt
    [] f.type = "int" -> v.k \in {"int", "bool"}
    [] f.type = "bool" -> v.k = "bool" \/ (v.k = "int" /\ v.n \in {0, 1})
    [] f.type = "str" -> v.k = "str"
    [] OTHER -> FALSE

\* the value the validated raw model holds
RawFieldCoerce(f, v) ==
  CASE v.k = "none" -> VNone
    [] f.type = "int" -> VInt(v.n)
    [] f.type = "bool" -> VBool(v.n = 1)
    [] OTHER -> v

\* cls.model_validate(raw_data_dict) of the raw schema
raw_model_validate(cls, raw_data_dict) ==
  IF \A i \in 1..Len(cls) : RawFieldAccepts(cls[i], raw_data_dict[cls[i].name])
  THEN [ok |-> TRUE, error |-> "",
        model |-> [nm \in FieldNames(cls) |->
                     RawFieldCoerce(cls[FieldIndex(cls, nm)],
                                    raw_data_dict[nm])]]
  ELSE [ok |-> FALSE, error |-> "SchemaValidationError", model |-> EmptyDict]

\* variant: the padding uses 0 where the code uses None
PadWithZero(cls, positional_values) ==
  IF Len(positional_values) < Len(cls)
  THEN positional_values \o
         [i \in 1..(Len(cls) - Len(positional_values)) |-> VInt(0)]
  ELSE positional_values

\* the right-padding of from_list
PadWithNone(cls, positional_values) ==
  IF Len(positional_values) < Len(cls)
  THEN positional_values \o
         [i \in 1..(Len(cls) - Len(positional_values)) |-> VNone]
  ELSE positional_values

\* BaseAspectDataPointRaw.from_list
from_list(cls, positional_values) ==
  LET padded == PadWithNone(cls, positional_values)
  IN IF Len(padded) > Len(cls)
     THEN [ok |-> FALSE, error |-> "SchemaValidationError",
           model |-> EmptyDict]
     ELSE raw_model_validate(cls,
            [nm \in FieldNames(cls) |-> padded[FieldIndex(cls, nm)]])

\* ------------------------------------------------- derived configuration
\* build_transformation_configs, dequantization part: per aspect the tagged
\* fields in field order and ONE divisor, the one of the last tagged field
TaggedDequant(cls) == SelectSeq(cls, LAMBDA f : f.dequantize_by # 0)

\* the entry the loop over model_fields leaves for a class with a tagged
\* field: every tagged field appends its name and overwrites the divisor
dequant_config_of(cls) ==
  LET tagged == TaggedDequant(cls)
  IN [divisor |-> tagged[Len(tagged)].dequantize_by,
      fields |-> [i \in 1..Len(tagged) |-> tagged[i].name]]

DEQUANTIZATION_CONFIG ==
  [a \in { x \in DOMAIN ASPECT_TO_RAW_SCHEMA_MAP :
             Len(TaggedDequant(ASPECT_TO_RAW_SCHEMA_MAP[x])) > 0 } |->
     dequant_config_of(ASPECT_TO_RAW_SCHEMA_MAP[a])]

\* build_transformation_configs, enum part: per aspect the rules
\* raw_field -> (clean_field, enum kind) in field order
TaggedEnum(cls) == SelectSeq(cls, LAMBDA f : f.enum_clean # "")

ASPECT_ENUM_MAPPINGS ==
  [a \in { x \in DOMAIN ASPECT_TO_RAW_SCHEMA_MAP :
             Len(TaggedEnum(ASPECT_TO_RAW_SCHEMA_MAP[x])) > 0 } |->
     LET tagged == TaggedEnum(ASPECT_TO_RAW_SCHEMA_MAP[a])
     IN [i \in 1..Len(tagged) |->
           [raw_field |-> tagged[i].name, clean_field |-> tagged[i].enum_clean,
            enum_key |-> tagged[i].enum_key]]]

\* DEQUANTIZATION_CONFIG.get(aspect_name, {})
dequant_rules(aspect_name) ==
  IF aspect_name \in DOMAIN DEQUANTIZATION_CONFIG
  THEN DEQUANTIZATION_CONFIG[aspect_name]
  ELSE [divisor |-> 0, fields |-> << >>]

\* ASPECT_ENUM_MAPPINGS.get(aspect_name, {})
enum_rules(aspect_name) ==
  IF aspect_name \in DOMAIN ASPECT_ENUM_MAPPINGS
  THEN ASPECT_ENUM_MAPPINGS[aspect_name]
  ELSE << >>

\* --------------------------------------------------- value transformer
\* variant: the value is multiplied where the code divides
DivideAsMultiply(v, divisor) == VFloat(v.n * divisor, v.d)

\* transformed_dict[field] /= divisor
Divide(v, divisor) == VFloat(v.n, v.d * divisor)

\* the dequantization loop of stream_transform_aspect
RECURSIVE DequantizeFields(_, _, _, _)
DequantizeFields(dct, fields, divisor, k) ==
  IF k > Len(fields) THEN dct
  ELSE LET field == fields[k]
       IN IF field \in DOMAIN dct /\ dct[field].k # "none"
          THEN DequantizeFields(DictSet(dct, field, Divide(dct[field], divisor)),
                                fields, divisor, k + 1)
          ELSE DequantizeFields(dct, fields, divisor, k + 1)

Dequantize(aspect_name, dct) ==
  LET rules == dequant_rules(aspect_name)
  IN IF rules.divisor # 0
     THEN DequantizeFields(dct, rules.fields, rules.divisor, 1)
     ELSE dct

\* one enum rule applied to the mapping
ApplyEnumRule(dct, rule) ==
  IF rule.raw_field \notin DOMAIN dct THEN dct
  ELSE LET raw_val == dct[rule.raw_field]
           rest == IF rule.raw_field # rule.clean_field
                   THEN DictPop(dct, rule.raw_field) ELSE dct
       IN IF raw_val.k = "none" THEN rest
          ELSE IF raw_val.k = "int" /\ EnumHasCode(rule.enum_key, raw_val.n)
               THEN DictSet(rest, rule.clean_field,
                            EnumOf(rule.enum_key, raw_val.n))
               ELSE DictSet(rest, rule.clean_field, VNone)

\* the enum loop of stream_transform_aspect
RECURSIVE ApplyEnumRules(_, _, _)
ApplyEnumRules(dct, rules, k) ==
  IF k > Len(rules) THEN dct
  ELSE ApplyEnumRules(ApplyEnumRule(dct, rules[k]), rules, k + 1)

\* pydantic (lax mode) check of one value against a clean field's type
CleanFieldAccepts(f, v) ==
  CASE v.k = "none" -> f.opt
    [] f.type = "int" ->
         v.k \in {"int", "bool"} \/ (v.k = "float" /\ v.n % v.d = 0)
    [] f.type = "float" -> v.k \in {"int", "bool", "float"}
    [] f.type = "bool" -> v.k = "bool" \/ (v.k = "int" /\ v.n \in {0, 1})
    [] f.type = "str" -> v.k = "str"
    [] f.type = "enum" ->
         v.k \in {"int", "enum"} /\ EnumHasCode(f.enum_key, v.n)
    [] OTHER -> FALSE

CleanFieldCoerce(f, v) ==
  CASE v.k = "none" -> VNone
    [] f.type = "int" -> VInt(v.n \div v.d)
    [] f.type = "float" -> VFloat(v.n, v.d)
    [] f.type = "bool" -> VBool(v.n = 1)
    [] f.type = "enum" -> EnumOf(f.enum_key, v.n)
    [] OTHER -> v

\* clean_schema_type.model_validate(transformed_dict): extra keys are
\* ignored, a missing key is an error for a field declared without default
clean_model_validate(cls, dct) ==
  IF \A i \in 1..Len(cls) :
       IF cls[i].name \in DOMAIN dct
       THEN CleanFieldAccepts(cls[i], dct[cls[i].name])
       ELSE ~cls[i].required
  THEN [ok |-> TRUE, error |-> "",
        model |-> [nm \in FieldNames(cls) |->
                     IF nm \in DOMAIN dct
                     THEN CleanFieldCoerce(cls[FieldIndex(cls, nm)], dct[nm])
                     ELSE VNone]]
  ELSE [ok |-> FALSE, error |-> "ValidationError", model |-> EmptyDict]

\* the mapping handed to the clean schema for one raw model
transformed_dict(aspect_name, raw_model) ==
  ApplyEnumRules(Dequantize(aspect_name, raw_model),
                 enum_rules(aspect_name), 1)

\* the body of the loop of stream_transform_aspect for one raw model
transform_one(aspect_name, raw_model) ==
  clean_model_validate(ASPECT_TO_CLEAN_SCHEMA_MAP[aspect_name],
                       transformed_dict(aspect_name, raw_model))

\* ------------------------------------------------ columnar materializer
\* _pydantic_to_polars_schema
polars_dtype(f) ==
  IF f.type = "enum" THEN "Categorical" ELSE PYDANTIC_TO_POLARS_TYPE_MAP[f.type]

\* _model_to_dict_for_polars: an enum member becomes its name
model_to_dict_for_polars(model) ==
  [nm \in DOMAIN model |->
     IF model[nm].k = "enum" THEN VStr(model[nm].s) ELSE model[nm]]


\* ------------------------------------------------------ output contracts
\* a number as the fraction n/d; the scale None is NoScale
Frac(num, den) == [n |-> num, d |-> den]

NoScale == Frac(0, 1)

CastRule(col, to_type) ==
  [col |-> col, transform |-> "cast", to_type |-> to_type, ptype |-> "",
   scale |-> NoScale, enum_key |-> "", has_null_encoding |-> FALSE,
   null_encoding |-> 0]

CastRuleNull(col, to_type, sentinel) ==
  [col |-> col, transform |-> "cast", to_type |-> to_type, ptype |-> "",
   scale |-> NoScale, enum_key |-> "", has_null_encoding |-> TRUE,
   null_encoding |-> sentinel]

QuantizeRule(col, to_type, ptype, scale) ==
  [col |-> col, transform |-> "quantize", to_type |-> to_type,
   ptype |-> ptype, scale |-> scale, enum_key |-> "",
   has_null_encoding |-> FALSE, null_encoding |-> 0]

EnumToIntRule(col, enum_key, to_type) ==
  [col |-> col, transform |-> "enum_to_int", to_type |-> to_type,
   ptype |-> "", scale |-> NoScale, enum_key |-> enum_key,
   has_null_encoding |-> FALSE, null_encoding |-> 0]

\* table_options; layout "" and has_null_encoding FALSE stand for absent keys
TableOptions(layout, has_null_encoding, sentinel) ==
  [layout |-> layout, has_null_encoding |-> has_null_encoding,
   null_encoding |-> sentinel]

NoTableOptions == TableOptions("", FALSE, 0)

\* the static quantization by 0.1 to Float64 that team_stats uses
TenthsRule(col) == QuantizeRule(col, "Float64", "static", Frac(1, 10))

team_stats_contract ==
  [columns |->
     << CastRule("frame", "Float64"), CastRule("team_id", "Float64"),
        TenthsRule("metal_used"), TenthsRule("metal_produced"),
        TenthsRule("metal_excess"), TenthsRule("metal_received"),
        TenthsRule("metal_sent"), TenthsRule("energy_used"),
        TenthsRule("energy_produced"), TenthsRule("energy_excess"),
        TenthsRule("energy_received"), TenthsRule("energy_sent"),
        TenthsRule("damage_dealt"), TenthsRule("damage_received"),
        CastRule("units_killed", "Float64"),
        CastRule("units_died", "Float64"),
        CastRule("units_captured", "Float64"),
        CastRule("units_out_captured", "Float64"),
        CastRule("units_received", "Float64"),
        CastRule("units_sent", "Float64"),
        CastRule("current_unit_count", "Float64"),
        TenthsRule("metal_current"), TenthsRule("metal_storage"),
        TenthsRule("metal_pull"), TenthsRule("metal_income"),
        TenthsRule("metal_expense"), TenthsRule("metal_share"),
        TenthsRule("metal_Rsent"), TenthsRule("metal_Rreceived"),
        TenthsRule("metal_Rexcess"), TenthsRule("energy_current"),
        TenthsRule("energy_storage"), TenthsRule("energy_pull"),
        TenthsRule("energy_income"), TenthsRule("energy_expense"),
        TenthsRule("energy_share"), TenthsRule("energy_Rsent"),
        TenthsRule("energy_Rreceived"), TenthsRule("energy_Rexcess") >>,
   table_options |-> TableOptions("row-major-mixed", FALSE, 0)]

army_value_timeline_contract ==
  [columns |->
     << CastRule("frame", "UInt32"), CastRule("team_id", "UInt32"),
        QuantizeRule("army_value", "UInt32", "static", Frac(1, 10)) >>,
   table_options |-> TableOptions("row-major-mixed", FALSE, 0)]

unit_positions_contract ==
  [columns |->
     << CastRule("frame", "UInt32"), CastRule("unit_id", "UInt16"),
        CastRule("unit_def_id", "UInt16"), CastRule("team_id", "UInt16"),
        CastRule("x", "Int16"), CastRule("y", "Int16"),
        CastRule("z", "Int16"), CastRule("vx", "Int16"),
        CastRule("vy", "Int16"), CastRule("vz", "Int16") >>,
   table_options |-> TableOptions("row-major-mixed", FALSE, 0)]

unit_events_contract ==
  [columns |->
     << CastRule("frame", "UInt32"), CastRule("unit_id", "UInt32"),
        CastRule("unit_def_id", "UInt32"), CastRule("unit_team_id", "UInt32"),
        CastRule("x", "UInt32"), CastRule("y", "UInt32"),
        CastRule("z", "UInt32"), CastRule("attacker_unit_id", "UInt32"),
        CastRule("attacker_unit_def_id", "UInt32"),
        CastRule("attacker_team_id", "UInt32"),
        EnumToIntRule("event_type", "UnitEventsEnum", "UInt32"),
        CastRule("old_team_id", "UInt32"), CastRule("new_team_id", "UInt32"),
        CastRule("builder_id", "UInt32"),
        CastRule("factory_queue_len", "UInt32") >>,
   table_options |-> TableOptions("row-major-mixed", TRUE, 0)]

damage_log_contract ==
  [columns |->
     << CastRule("frame", "Int32"), CastRule("victim_team_id", "Int16"),
        CastRuleNull("attacker_team_id", "Int16", -1),
        CastRule("victim_unit_id", "Int32"),
        CastRule("victim_def_id", "Int32"),
        CastRuleNull("attacker_unit_id", "UInt16", -1),
        CastRuleNull("attacker_def_id", "UInt16", -1),
        CastRule("weapon_def_id", "Int32"),
        CastRuleNull("projectile_id", "Int32", -1),
        CastRule("damage", "Float64"), CastRule("is_paralyzer", "Boolean"),
        CastRule("victim_pos_x", "Int16"), CastRule("victim_pos_y", "Int16"),
        CastRule("victim_pos_z", "Int16") >>,
   table_options |-> TableOptions("columnar", FALSE, 0)]

\* the contract of the unit definitions, a static asset
defs_contract ==
  [transform |-> "to_lookup_map", key_column |-> "unit_def_id",
   value_columns |-> << "unit_name", "translated_human_name" >>]

\* the contract of a stream without entry, and of "defs" (no columns key)
NoContract == [columns |-> << >>, table_options |-> NoTableOptions]

OUTPUT_CONTRACTS ==
  [ army_value_timeline |-> army_value_timeline_contract,
    unit_positions |-> unit_positions_contract,
    unit_events |-> unit_events_contract,
    team_stats |-> team_stats_contract,
    damage_log |-> damage_log_contract,
    defs |-> NoContract ]

\* ------------------------------------------------- polars column algebra
NumericDtypes ==
  { "Int8", "UInt8", "Int16", "UInt16", "Int32", "UInt32", "Int64",
    "UInt64", "Float32", "Float64" }

FloatDtypes == { "Float32", "Float64" }

\* the integers of the model stay below 2^31, the widths above it never bind
DtypeMin(t) ==
  CASE t = "Int8" -> -128
    [] t = "Int16" -> -32768
    [] t \in {"UInt8", "UInt16", "UInt32", "UInt64"} -> 0
    [] OTHER -> -2147483647

DtypeMax(t) ==
  CASE t = "Int8" -> 127
    [] t = "UInt8" -> 255
    [] t = "Int16" -> 32767
    [] t = "UInt16" -> 65535
    [] OTHER -> 2147483647

\* n/d cut towards zero
Truncate(num, den) ==
  IF num >= 0 THEN num \div den ELSE -((-num) \div den)

\* Series.round(0) of p/q (q > 0) under the build's tie rule
RoundFrac(p, q, mode) ==
  LET a == IF p >= 0 THEN p ELSE -p
      lower == a \div q
      twice == 2 * (a % q)
      mag == IF twice < q THEN lower
             ELSE IF twice > q THEN lower + 1
             ELSE IF mode = "half_to_even" /\ lower % 2 = 0 THEN lower
             ELSE lower + 1
  IN IF p >= 0 THEN mag ELSE -mag

\* Series.cast(to_type) of one cell (strict): the new cell, or a failure
cast_value(v, to_type) ==
  CASE v.k = "none" -> [ok |-> TRUE, val |-> VNone]
    [] v.k \notin {"int", "bool", "float"} -> [ok |-> FALSE, val |-> VNone]
    [] to_type \in FloatDtypes -> [ok |-> TRUE, val |-> VFloat(v.n, v.d)]
    [] to_type = "Boolean" -> [ok |-> TRUE, val |-> VBool(v.n # 0)]
    [] to_type \in NumericDtypes ->
         LET whole == Truncate(v.n, v.d)
         IN IF whole >= DtypeMin(to_type) /\ whole <= DtypeMax(to_type)
            THEN [ok |-> TRUE, val |-> VInt(whole)]
            ELSE [ok |-> FALSE, val |-> VNone]
    [] OTHER -> [ok |-> FALSE, val |-> VNone]

\* df.get_column(name)
get_column(table, name) ==
  [p \in 1..Len(table.rows) |-> table.rows[p].rec[name]]

HasColumn(table, name) == \E p \in 1..Len(table.columns) : table.columns[p] = name

\* df.with_columns(series.alias(name)) for an existing column
with_columns(table, name, values, dtype) ==
  [columns |-> table.columns,
   dtypes |-> [table.dtypes EXCEPT ![name] = dtype],
   rows |-> [p \in 1..Len(table.rows) |->
               [table.rows[p] EXCEPT !.rec[name] = values[p]]]]

\* Series.cast over a whole column
cast_series(values, to_type) ==
  IF \A p \in 1..Len(values) : cast_value(values[p], to_type).ok
  THEN [ok |-> TRUE,
        values |-> [p \in 1..Len(values) |-> cast_value(values[p], to_type).val]]
  ELSE [ok |-> FALSE, values |-> << >>]

\* variant: the quotient is truncated where the code rounds
quantize_value_truncated(v, scale, mode) ==
  IF v.k = "none" THEN VNone
  ELSE VFloat(Truncate(v.n * scale.d, v.d * scale.n), 1)

\* one cell of (series / scale).round(0)
quantize_value(v, scale, mode) ==
  IF v.k = "none" THEN VNone
  ELSE VFloat(RoundFrac(v.n * scale.d, v.d * scale.n, mode), 1)

\* series.abs().max(): the largest magnitude among the non-null cells
AbsFrac(v) == Frac(IF v.n >= 0 THEN v.n ELSE -v.n, v.d)

FracLeq(a, b) == a.n * b.d <= b.n * a.d

abs_max(values) ==
  LET present == { p \in 1..Len(values) : values[p].k # "none" }
  IN IF present = {} THEN NoScale
     ELSE LET top == CHOOSE p \in present :
                       \A q \in present :
                         FracLeq(AbsFrac(values[q]), AbsFrac(values[p]))
          IN AbsFrac(values[top])

\* target_max of the dynamic quantization, from the name of to_type
target_max(to_type) ==
  CASE to_type = "Int8" -> 127
    [] to_type = "UInt8" -> 255
    [] to_type = "Int16" -> 32767
    [] to_type = "UInt16" -> 65535
    [] OTHER -> 2147483647

\* _apply_quantization: the new column and its metadata, or an error
apply_quantization(values, dtype, rule, mode) ==
  LET failed == [ok |-> FALSE, values |-> << >>, meta |-> [transform |-> ""]]
  IN IF rule.to_type = "" THEN failed
     ELSE IF rule.ptype = "static"
     THEN IF rule.scale = NoScale \/ dtype \notin NumericDtypes THEN failed
          ELSE LET rounded == [p \in 1..Len(values) |->
                                 quantize_value(values[p], rule.scale, mode)]
                   casted == cast_series(rounded, rule.to_type)
               IN IF ~casted.ok THEN failed
                  ELSE [ok |-> TRUE, values |-> casted.values,
                        meta |-> [transform |-> "static_quantize",
                                  scale |-> rule.scale,
                                  original_dtype |-> dtype]]
     ELSE IF dtype \notin FloatDtypes \/ rule.to_type \in FloatDtypes
          THEN failed
          ELSE LET top == abs_max(values)
                   scale == IF top.n = 0 THEN Frac(1, 1)
                            ELSE Frac(top.n, top.d * target_max(rule.to_type))
                   rounded == [p \in 1..Len(values) |->
                                 quantize_value(values[p], scale, mode)]
                   casted == cast_series(rounded, rule.to_type)
               IN IF ~casted.ok THEN failed
                  ELSE [ok |-> TRUE, values |-> casted.values,
                        meta |-> [transform |-> "symmetric_quantize",
                                  scale |-> scale,
                                  original_dtype |-> dtype]]

\* variant: the entry of a cast names the rule kind
cast_metadata_named(original, name) ==
  [transform |-> "cast", original_dtype |-> original.dtypes[name]]

\* the entry recorded for a cast column
cast_metadata(original, name) ==
  [transform |-> "none", original_dtype |-> original.dtypes[name]]

\* output_metadata["columns"][name] = entry
MetaSet(columns_meta, name, entry) ==
  [x \in (DOMAIN columns_meta) \cup {name} |->
     IF x = name THEN entry ELSE columns_meta[x]]

\* one iteration of the loop of _transform_single_df over the contract:
\* status "ok", "missing" (ColumnNotFoundError: warn, continue) or "error"
\* (any other exception: TransformationError)
apply_rule(original, table, columns_meta, rule, mode) ==
  LET unchanged == [status |-> "ok", table |-> table, meta |-> columns_meta]
      missing == [status |-> "missing", table |-> table, meta |-> columns_meta]
      failed == [status |-> "error", table |-> table, meta |-> columns_meta]
  IN IF rule.transform = "quantize"
     THEN IF ~HasColumn(table, rule.col) THEN missing
          ELSE LET res == apply_quantization(get_column(table, rule.col),
                                             table.dtypes[rule.col], rule, mode)
               IN IF ~res.ok THEN failed
                  ELSE [status |-> "ok",
                        table |-> with_columns(table, rule.col, res.values,
                                               rule.to_type),
                        meta |-> MetaSet(columns_meta, rule.col, res.meta)]
     ELSE IF rule.transform = "cast"
     THEN IF rule.to_type = "" THEN failed
          ELSE IF ~HasColumn(table, rule.col) THEN missing
          ELSE LET res == cast_series(get_column(table, rule.col), rule.to_type)
               IN IF ~res.ok THEN failed
                  ELSE [status |-> "ok",
                        table |-> with_columns(table, rule.col, res.values,
                                               rule.to_type),
                        meta |-> MetaSet(columns_meta, rule.col,
                                         cast_metadata(original, rule.col))]
     ELSE unchanged

\* _transform_single_df as one call: the loop from the rule at position p
\* on; res is what the rule at p came to
RECURSIVE transform_rules(_, _, _, _, _, _)
rules_step(original, rules, p, mode, res) ==
  IF res.status = "error"
  THEN [ok |-> FALSE, table |-> res.table, meta |-> res.meta]
  ELSE transform_rules(original, res.table, res.meta, rules, p + 1, mode)

transform_rules(original, table, columns_meta, rules, p, mode) ==
  IF p > Len(rules)
  THEN [ok |-> TRUE, table |-> table, meta |-> columns_meta]
  ELSE rules_step(original, rules, p, mode,
                  apply_rule(original, table, columns_meta, rules[p], mode))

\* return output_df, output_metadata
engine_result(c, res) ==
  [ok |-> res.ok, df |-> res.table,
   metadata |-> [columns |-> res.meta, table |-> c.table_options]]

\* (output_df, output_metadata) of _transform_single_df, or its failure
transform_single_df(table, c, mode) ==
  engine_result(c, transform_rules(table, table,
                                   [x \in {} |-> [transform |-> ""]],
                                   c.columns, 1, mode))

\* ------------------------------------------------------ columnar encoder
\* a byte of a blob: its value, or the x-th byte of the encoding of a cell
\* whose bit pattern the model does not spell out (a float, a text)
Byte(b) == [b |-> b, of |-> VNone, x |-> 0]

PartByte(cell, x) == [b |-> -1, of |-> cell, x |-> x]

\* numpy's nan
NaN == VFloat(0, 0)

\* a list cell of a List column; a null cell is VNone
VList(items) == [k |-> "list", items |-> items]

\* itemsize of the numpy dtype _NUMPY_DTYPE_MAP gives a polars dtype
sizeof(dtype) ==
  CASE dtype \in {"Int8", "UInt8", "Boolean"} -> 1
    [] dtype \in {"Int16", "UInt16"} -> 2
    [] dtype \in {"Int32", "UInt32", "Float32"} -> 4
    [] dtype \in {"Int64", "UInt64", "Float64"} -> 8
    [] OTHER -> 0

InNumpyMap(dtype) == sizeof(dtype) > 0

\* the inner dtype of a List dtype, "" for any other dtype
ListInner(dtype) ==
  CASE dtype = "List(UInt8)" -> "UInt8"
    [] dtype = "List(Int16)" -> "Int16"
    [] dtype = "List(Int32)" -> "Int32"
    [] dtype = "List(Float32)" -> "Float32"
    [] OTHER -> ""

\* the w little-endian bytes of the integer v in two's complement
RECURSIVE LittleEndian(_, _)
LittleEndian(v, w) ==
  IF w = 0 THEN << >>
  ELSE << Byte(v % 256) >> \o LittleEndian(v \div 256, w - 1)

\* ndarray.tobytes() of one element of the numpy dtype of dtype
ItemBytes(v, dtype) ==
  IF dtype \in FloatDtypes
  THEN LET cell == IF v.k = "none" THEN NaN ELSE VFloat(v.n, v.d)
       IN [x \in 1..sizeof(dtype) |-> PartByte(cell, x)]
  ELSE LittleEndian(v.n, sizeof(dtype))

\* b"".join(parts)
RECURSIVE Join(_)
Join(parts) ==
  IF parts = << >> THEN << >> ELSE Head(parts) \o Join(Tail(parts))

\* variant: the offsets are stored as uint16
offset_bytes_uint16(offs) ==
  Join([p \in 1..Len(offs) |-> LittleEndian(offs[p], 2)])

\* np.asarray(offs, dtype="uint32").tobytes()
OffsetBytes(offs) == Join([p \in 1..Len(offs) |-> LittleEndian(offs[p], 4)])

\* the offsets a loop builds from the lengths of the parts: [0, l1, l1+l2, ..]
RECURSIVE RunningTotal(_, _)
RunningTotal(lengths, sofar) ==
  IF lengths = << >> THEN << sofar >>
  ELSE << sofar >> \o RunningTotal(Tail(lengths), sofar + Head(lengths))

\* the text of a cell as code points; a text written "u+XXXX" is the one
\* character with that code point, any other text is ASCII
IsEscaped(s) == s \in { "u+00e9", "u+20ac" }

CodePoint(s) == IF s = "u+00e9" THEN 233 ELSE 8364

\* variant: one byte per character
utf8_one_byte_per_char(s) ==
  IF IsEscaped(s) THEN << Byte(CodePoint(s) % 256) >>
  ELSE [x \in 1..Len(s) |-> PartByte(VStr(s), x)]

\* str.encode("utf-8", "surrogatepass")
utf8_encode(s) ==
  IF IsEscaped(s)
  THEN LET cp == CodePoint(s)
       IN IF cp < 128 THEN << Byte(cp) >>
          ELSE IF cp < 2048
          THEN << Byte(192 + (cp \div 64)), Byte(128 + (cp % 64)) >>
          ELSE << Byte(224 + (cp \div 4096)),
                  Byte(128 + ((cp \div 64) % 64)), Byte(128 + (cp % 64)) >>
  ELSE [x \in 1..Len(s) |-> PartByte(VStr(s), x)]

\* a column handed to the encoder
Series(name, dtype, values) == [name |-> name, dtype |-> dtype, values |-> values]

\* df[name]
SeriesOf(table, name) == Series(name, table.dtypes[name], get_column(table, name))

\* Series.has_nulls()
has_nulls(series) ==
  \E p \in 1..Len(series.values) : series.values[p].k = "none"

\* an entry of the column schema; "" stands for an absent key
SchemaEntry(name, dtype, data_key, offsets_key, method) ==
  [name |-> name, dtype |-> dtype, data_key |-> data_key,
   offsets_key |-> offsets_key, serialization_method |-> method]

NoBlobs == [x \in {} |-> << >>]

EncodeFailure(exc) ==
  [ok |-> FALSE, error |-> exc, keys |-> << >>, blobs |-> NoBlobs,
   entries |-> << >>]

\* the List<primitive> branch: what one sub-list contributes
ListPart(cell, inner) ==
  IF cell.k = "none" THEN << >>
  ELSE Join([p \in 1..Len(cell.items) |-> ItemBytes(cell.items[p], inner)])

ListCount(cell) == IF cell.k = "none" THEN 0 ELSE Len(cell.items)

\* _series_to_bytes_recursive for the dtypes of the model: list of
\* primitive, Utf8, primitive, and the msgpack fallback for the rest
series_to_bytes_recursive(series, base_name) ==
  LET dtype == series.dtype
      values == series.values
      rows == 1..Len(values)
  IN IF ListInner(dtype) # ""
     THEN LET inner == ListInner(dtype)
          IN IF inner \notin FloatDtypes
                /\ \E p \in rows :
                     /\ values[p].k # "none"
                     /\ \E q \in 1..Len(values[p].items) :
                          values[p].items[q].k = "none"
             THEN EncodeFailure("ValueError")
             ELSE LET offs == RunningTotal(
                                [p \in rows |-> ListCount(values[p])], 0)
                      data == Join([p \in rows |-> ListPart(values[p], inner)])
                  IN [ok |-> TRUE, error |-> "",
                      keys |-> << base_name \o "_offs", base_name \o "_data" >>,
                      blobs |-> (base_name \o "_offs" :> OffsetBytes(offs))
                                  @@ (base_name \o "_data" :> data),
                      entries |-> << SchemaEntry(base_name, dtype,
                                                 base_name \o "_data",
                                                 base_name \o "_offs", "") >>]
     ELSE IF dtype = "Utf8"
     THEN LET enc_parts == [p \in rows |->
                              IF values[p].k = "none" THEN << >>
                              ELSE utf8_encode(values[p].s)]
              offs == RunningTotal([p \in rows |-> Len(enc_parts[p])], 0)
          IN [ok |-> TRUE, error |-> "",
              keys |-> << base_name \o "_offs", base_name \o "_data" >>,
              blobs |-> (base_name \o "_offs" :> OffsetBytes(offs))
                          @@ (base_name \o "_data" :> Join(enc_parts)),
              entries |-> << SchemaEntry(base_name, "Utf8",
                                         base_name \o "_data",
                                         base_name \o "_offs", "") >>]
     ELSE IF InNumpyMap(dtype)
     THEN IF has_nulls(series) /\ dtype \notin FloatDtypes
          THEN EncodeFailure("ValueError")
          ELSE [ok |-> TRUE, error |-> "",
                keys |-> << base_name \o "_bin" >>,
                blobs |-> (base_name \o "_bin" :>
                             Join([p \in rows |-> ItemBytes(values[p], dtype)])),
                entries |-> << SchemaEntry(base_name, dtype,
                                           base_name \o "_bin", "", "") >>]
     ELSE [ok |-> TRUE, error |-> "",
           keys |-> << base_name \o "_mpk" >>,
           blobs |-> (base_name \o "_mpk" :>
                        [p \in rows |-> PartByte(values[p], 0)]),
           entries |-> << SchemaEntry(base_name, dtype, base_name \o "_mpk",
                                      "", "msgpack_polars_list") >>]

\* _series_to_bytes
series_to_bytes(series) == series_to_bytes_recursive(series, series.name)

\* dict.get("null_encoding") of a column's metadata entry
ColumnNullEncoding(col_meta) ==
  IF "null_encoding" \in DOMAIN col_meta
  THEN [present |-> TRUE, value |-> col_meta.null_encoding]
  ELSE [present |-> FALSE, value |-> 0]

\* dict.get("null_encoding") of the table options
TableNullEncoding(table_meta) ==
  [present |-> table_meta.has_null_encoding, value |-> table_meta.null_encoding]

\* Series.fill_null(sentinel) for a sentinel the dtype can hold
fill_null(series, sentinel) ==
  [series EXCEPT !.values =
     [p \in 1..Len(series.values) |->
        IF series.values[p].k # "none" THEN series.values[p]
        ELSE IF series.dtype \in FloatDtypes THEN VFloat(sentinel, 1)
        ELSE VInt(sentinel)]]

\* variant: the table-level sentinel is looked up first
sentinel_table_first(col_meta, table_meta) ==
  IF TableNullEncoding(table_meta).present THEN TableNullEncoding(table_meta)
  ELSE ColumnNullEncoding(col_meta)

\* col_meta.get("null_encoding", table_meta.get("null_encoding"))
sentinel_of(col_meta, table_meta) ==
  IF ColumnNullEncoding(col_meta).present THEN ColumnNullEncoding(col_meta)
  ELSE TableNullEncoding(table_meta)

\* _fill_nulls_per_contract: the series to encode, or OutputGenerationError
fill_nulls_per_contract(series, col_meta, table_meta) ==
  LET sentinel == sentinel_of(col_meta, table_meta)
  IN IF ~has_nulls(series) THEN [ok |-> TRUE, series |-> series]
     ELSE IF ~sentinel.present /\ series.dtype \notin FloatDtypes
     THEN [ok |-> FALSE, series |-> series]
     ELSE IF sentinel.present
     THEN [ok |-> TRUE, series |-> fill_null(series, sentinel.value)]
     ELSE [ok |-> TRUE, series |-> series]

\* ------------------------------------------------------ output strategies
\* the dtypes of format_char_map
StructDtypes ==
  { "Int8", "UInt8", "Int16", "UInt16", "Int32", "UInt32", "Int64", "UInt64",
    "Float32", "Float64" }

\* _get_struct_format_string: TypeError for a dtype without format character
get_struct_format_string(table) ==
  IF \A p \in 1..Len(table.columns) :
       table.dtypes[table.columns[p]] \in StructDtypes
  THEN [ok |-> TRUE,
        dtypes |-> [p \in 1..Len(table.columns) |->
                      table.dtypes[table.columns[p]]]]
  ELSE [ok |-> FALSE, dtypes |-> << >>]

\* struct.Struct("<...").size: little-endian, standard sizes, no padding
RECURSIVE struct_size(_)
struct_size(dtypes) ==
  IF dtypes = << >> THEN 0
  ELSE sizeof(Head(dtypes)) + struct_size(Tail(dtypes))

\* df.null_count() summed over the columns
total_nulls(table) ==
  Cardinality({ << p, q >> \in (1..Len(table.rows)) \X (1..Len(table.columns)) :
                  table.rows[p].rec[table.columns[q]].k = "none" })

\* variant: every null becomes 0, whatever the sentinel
df_fill_null_zero(table, value) ==
  [table EXCEPT !.rows =
     [p \in 1..Len(table.rows) |->
        [table.rows[p] EXCEPT !.rec =
           [nm \in DOMAIN table.rows[p].rec |->
              IF table.rows[p].rec[nm].k # "none" THEN table.rows[p].rec[nm]
              ELSE IF table.dtypes[nm] \in FloatDtypes THEN VFloat(0, 1)
              ELSE VInt(0)]]]]

\* DataFrame.fill_null(value)
df_fill_null(table, value) ==
  [table EXCEPT !.rows =
     [p \in 1..Len(table.rows) |->
        [table.rows[p] EXCEPT !.rec =
           [nm \in DOMAIN table.rows[p].rec |->
              IF table.rows[p].rec[nm].k # "none" THEN table.rows[p].rec[nm]
              ELSE IF table.dtypes[nm] \in FloatDtypes THEN VFloat(value, 1)
              ELSE VInt(value)]]]]

\* variant: a table with nulls and no sentinel is handed on as it is
prepare_df_unchecked(table, metadata) ==
  IF total_nulls(table) = 0 THEN [ok |-> TRUE, df |-> table]
  ELSE IF ~metadata.table.has_null_encoding THEN [ok |-> TRUE, df |-> table]
  ELSE [ok |-> TRUE, df |-> df_fill_null(table, metadata.table.null_encoding)]

\* _prepare_df_for_row_major_packing: the table to pack, or
\* OutputGenerationError
prepare_df_for_row_major_packing(table, metadata) ==
  IF total_nulls(table) = 0 THEN [ok |-> TRUE, df |-> table]
  ELSE IF ~metadata.table.has_null_encoding THEN [ok |-> FALSE, df |-> table]
  ELSE [ok |-> TRUE, df |-> df_fill_null(table, metadata.table.null_encoding)]

\* packer.pack(*row) for every row of iter_rows(), written to the buffer
pack_rows(table, dtypes) ==
  Join([p \in 1..Len(table.rows) |->
          Join([q \in 1..Len(table.columns) |->
                  ItemBytes(table.rows[p].rec[table.columns[q]], dtypes[q])])])

\* metadata.get("columns", {}).get(name, {})
ColumnMeta(metadata, name) ==
  IF name \in DOMAIN metadata.columns THEN metadata.columns[name]
  ELSE [x \in {} |-> ""]

\* HybridMessagePackZstStrategy._get_column_schema
get_column_schema(series_name, series_dtype, data_key, metadata) ==
  LET info == ColumnMeta(metadata, series_name)
  IN [name |-> series_name, dtype |-> series_dtype, data_key |-> data_key,
      original_dtype |-> IF "original_dtype" \in DOMAIN info
                         THEN info.original_dtype ELSE series_dtype,
      transform |-> DictPop(info, "original_dtype")]

\* a stream descriptor; "" and 0 stand for keys the layout does not have
Descriptor(layout, byte_size, num_rows, stride, data_key, file, columns) ==
  [layout |-> layout, byte_size |-> byte_size, num_rows |-> num_rows,
   row_byte_stride |-> stride, data_key |-> data_key, file |-> file,
   columns |-> columns]

NoDescriptor == Descriptor("", 0, 0, 0, "", "", << >>)

\* what one iteration over all_streams comes to: "skip" (continue), "warn"
\* (TypeError: a warning, the stream is left out), "ok", or "error"
StreamOutcome(status, error, descriptor, keys, blobs) ==
  [status |-> status, error |-> error, descriptor |-> descriptor,
   keys |-> keys, blobs |-> blobs]

StreamSkip == StreamOutcome("skip", "", NoDescriptor, << >>, NoBlobs)

StreamWarn == StreamOutcome("warn", "", NoDescriptor, << >>, NoBlobs)

\* keys and blobs: what the iteration had produced before it raised
StreamError(exc, keys, blobs) ==
  StreamOutcome("error", exc, NoDescriptor, keys, blobs)

\* the loop over the series of a columnar stream, from column p on:
\* _fill_nulls_per_contract, then _series_to_bytes, blobs and entries kept
RECURSIVE encode_columns(_, _, _, _, _, _)
encode_columns(table, metadata, p, keys, blobs, entries) ==
  IF p > Len(table.columns)
  THEN [ok |-> TRUE, error |-> "", keys |-> keys, blobs |-> blobs,
        entries |-> entries]
  ELSE LET name == table.columns[p]
           filled == fill_nulls_per_contract(SeriesOf(table, name),
                                             ColumnMeta(metadata, name),
                                             metadata.table)
           enc == series_to_bytes(filled.series)
       IN IF ~filled.ok
          THEN [ok |-> FALSE, error |-> "OutputGenerationError",
                keys |-> keys, blobs |-> blobs, entries |-> entries]
          ELSE IF ~enc.ok
          THEN [ok |-> FALSE, error |-> enc.error, keys |-> keys,
                blobs |-> blobs, entries |-> entries]
          ELSE encode_columns(table, metadata, p + 1, keys \o enc.keys,
                              enc.blobs @@ blobs, entries \o enc.entries)

\* sum(len(blob)) over the blobs produced
RECURSIVE blobs_size(_, _)
blobs_size(keys, blobs) ==
  IF keys = << >> THEN 0
  ELSE Len(blobs[Head(keys)]) + blobs_size(Tail(keys), blobs)

\* the layout a stream is encoded with: table_options.get("layout", "columnar")
layout_of(metadata) ==
  IF metadata.table.layout = "" THEN "columnar" ELSE metadata.table.layout

\* HybridMessagePackZstStrategy._build_payloads: the body of the loop
hybrid_build_stream(stream) ==
  LET table == stream.df
      metadata == stream.metadata
  IN IF table.rows = << >> THEN StreamSkip
     ELSE IF layout_of(metadata) = "row-major-mixed"
     THEN LET prepared == prepare_df_for_row_major_packing(table, metadata)
              format == get_struct_format_string(prepared.df)
              blob == pack_rows(prepared.df, format.dtypes)
          IN IF ~prepared.ok
             THEN StreamError("OutputGenerationError", << >>, NoBlobs)
             ELSE IF ~format.ok THEN StreamWarn
             ELSE IF total_nulls(prepared.df) > 0
             THEN StreamError("struct.error", << >>, NoBlobs)
             ELSE StreamOutcome("ok", "",
                    Descriptor("row-major-mixed", Len(blob),
                               Len(prepared.df.rows),
                               struct_size(format.dtypes), stream.name, "",
                               [q \in 1..Len(table.columns) |->
                                  get_column_schema(table.columns[q],
                                    prepared.df.dtypes[table.columns[q]],
                                    stream.name, metadata)]),
                    << "default" >>, ("default" :> blob))
     ELSE LET enc == encode_columns(table, metadata, 1, << >>, NoBlobs, << >>)
          IN IF ~enc.ok THEN StreamError(enc.error, enc.keys, enc.blobs)
             ELSE StreamOutcome("ok", "",
                    Descriptor("columnar", blobs_size(enc.keys, enc.blobs),
                               Len(table.rows), 0, "", "", enc.entries),
                    enc.keys, enc.blobs)

\* RowMajorBundleZstStrategy._execute_write: the body of the loop; the blob
\* goes to the file "<stream>.rows.bin.zst"
row_major_bundle_stream(stream) ==
  LET table == stream.df
      metadata == stream.metadata
  IN IF table.rows = << >> \/ metadata.table.layout # "row-major-mixed"
     THEN StreamSkip
     ELSE LET prepared == prepare_df_for_row_major_packing(table, metadata)
              format == get_struct_format_string(table)
              blob == pack_rows(prepared.df, format.dtypes)
              filename == stream.name \o ".rows.bin.zst"
          IN IF ~prepared.ok
             THEN StreamError("OutputGenerationError", << >>, NoBlobs)
             ELSE IF ~format.ok THEN StreamWarn
             ELSE IF total_nulls(prepared.df) > 0
             THEN StreamError("struct.error", << >>, NoBlobs)
             ELSE StreamOutcome("ok", "",
                    Descriptor("row-major-mixed", Len(blob),
                               Len(prepared.df.rows),
                               struct_size(format.dtypes), "", filename,
                               [q \in 1..Len(table.columns) |->
                                  [name |-> table.columns[q],
                                   dtype |-> prepared.df.dtypes[table.columns[q]],
                                   null_encoding |-> TableNullEncoding(metadata.table),
                                   transform |->
                                     IF table.columns[q] \in DOMAIN metadata.columns
                                     THEN metadata.columns[table.columns[q]]
                                     ELSE [transform |-> "none"]]]),
                    << filename >>, (filename :> blob))

\* variant: the file name carries the stream
blob_filename_per_stream(stream_name, data_key) ==
  stream_name \o "." \o data_key \o ".bin.zst"

\* the file a blob of the columnar bundle is written to: f"{data_key}.bin.zst"
blob_filename(stream_name, data_key) == data_key \o ".bin.zst"

\* the entry of a column after its blobs were written: "file" is set by
\* every blob that matches data_key or offsets_key, the last one stays
with_file(stream_name, entry, keys) ==
  LET matching == { p \in 1..Len(keys) :
                      keys[p] \in { entry.data_key, entry.offsets_key } }
      last == CHOOSE p \in matching : \A q \in matching : q <= p
  IN [name |-> entry.name, dtype |-> entry.dtype, data_key |-> entry.data_key,
      offsets_key |-> entry.offsets_key,
      serialization_method |-> entry.serialization_method,
      file |-> IF matching = {} THEN ""
               ELSE blob_filename(stream_name, keys[last])]

\* ColumnarBundleZstStrategy._execute_write: the body of the loop; blobs
\* keeps the blobs by data key, in the order written
columnar_bundle_stream(stream) ==
  LET table == stream.df
      metadata == stream.metadata
  IN IF table.rows = << >> \/ metadata.table.layout = "row-major-mixed"
     THEN StreamSkip
     ELSE LET enc == encode_columns(table, metadata, 1, << >>, NoBlobs, << >>)
          IN IF ~enc.ok THEN StreamError(enc.error, enc.keys, enc.blobs)
             ELSE StreamOutcome("ok", "",
                    Descriptor("columnar", 0, Len(table.rows), 0, "", "",
                               [q \in 1..Len(enc.entries) |->
                                  with_file(stream.name, enc.entries[q],
                                            enc.keys)]),
                    enc.keys, enc.blobs)

\* ------------------------------------------------------------ the state
VARIABLES
  aspect_name,    \* the aspect of the ingested blob
  raw_bytes,      \* the blob, as the sequence of its top-level objects
  skip_on_error,  \* the --skip-on-error flag
  pc,             \* the step of the run that is executing
  i,              \* stream_decode_aspect: objects consumed so far
  raw_models,     \* the raw records yielded, each with its row index
  j,              \* stream_transform_aspect: raw records consumed so far
  clean_models,   \* the clean records yielded
  dataframe,      \* the aspect's table
  error,          \* the exception that ended the run, "" when none
  exit_code,      \* the exit code of run(), -1 while running
  steps,          \* the steps started so far, in order
  log,            \* warnings logged so far
  df,             \* output contract engine: the table handed in
  contract,       \* output contract engine: the contract handed in
  col_index,      \* _transform_single_df: contract columns consumed so far
  output_df,      \* _transform_single_df: the table being rewritten
  output_metadata,\* _transform_single_df: the metadata being collected
  round_mode,     \* how the polars build rounds a tie
  strategy,       \* OutputStrategy.write: the strategy that is executing
  all_streams,    \* the streams handed to write(), in dict order
  defs_df,        \* the unit definitions handed to write()
  game_meta_bytes,\* the game metadata handed to write()
  stream_index,   \* _execute_write: streams consumed so far
  streams_schema, \* the stream descriptors collected so far
  data_payloads,  \* hybrid: the blobs collected so far, by stream and key
  static_asset_keys, \* hybrid: schema.static_assets
  files,          \* the output directory: what each path holds
  input_files,    \* run: the .mpk files os.listdir yields, in order
  file_index,     \* load_mpk_files: files consumed so far
  raw_mpk_data,   \* load_mpk_files: the aspects whose file was read
  use_cache,      \* _run_serial_pipeline: not --no-cache
  force_reprocess,\* the --force-reprocess flag
  cache_file,     \* the cache file of the replay
  cache_writable, \* whether the cache file can be opened for writing
  raw_data_by_aspect, \* _run_serial_pipeline: the raw records and their origin
  dataframes,     \* _run_serial_pipeline: the aspects a table was built for
  stats_registry, \* STATS_REGISTRY as discovery built it, in insertion order
  stats_to_compute, \* perform_aggregations: the stats requested
  unaggregated_streams_to_compute, \* the pass-through streams requested
  stat_outcomes, \* what each stat function does on the tables handed in
  stream_outcomes, \* what each stream function does on the tables handed in
  agg_index,     \* perform_aggregations: names consumed so far by the running loop
  computed_stats, \* the keys of computed_stats, in insertion order
  computed_unaggregated_streams, \* the keys of computed_unaggregated_streams, in insertion order
  invoked,       \* the stat and stream functions called so far, in order
  config,        \* the schema maps and the derived mappings validate_configurations reads
  dry_run,       \* the --dry-run flag
  serial,        \* the --serial flag
  context_ok,    \* whether defs.csv and the unit definitions load
  ingested,      \* the ingested aspects, in the order of raw_mpk_data
  tf_futures,    \* the future of each submitted aspect
  inline_index,  \* the small aspects processed so far
  transformed_data, \* the aspects collected, in completion order
  pending_exc,   \* the exception the executor block is left with
  parallel_result, \* the dataframes dict of the parallel pipeline
  completion,    \* for each of two runs, the order its workers completed in
  schema_order,  \* for each of two runs, the names of schema.streams in order
  tag,           \* the dequantize_by tag added to a raw field
  tag_record,    \* a raw record of the aspect, as model_dump gives it
  dequantized,   \* the record after the dequantization loop, before and after the edit
  list_series,   \* the column handed to _series_to_bytes_recursive
  encoded        \* what the encoder returned for it, once it has

\* the variables of the output contract engine
cvars == << df, contract, col_index, output_df, output_metadata, round_mode >>

\* the variables of the output strategies
evars ==
  << strategy, all_streams, defs_df, game_meta_bytes, stream_index,
     streams_schema, data_payloads, static_asset_keys, files >>

\* the variables of run() and of the serial pipeline
rvars ==
  << input_files, file_index, raw_mpk_data, use_cache, force_reprocess,
     cache_file, cache_writable, raw_data_by_aspect, dataframes >>

\* the variables of perform_aggregations
avars ==
  << stats_registry, stats_to_compute, unaggregated_streams_to_compute, stat_outcomes, stream_outcomes, agg_index, computed_stats, computed_unaggregated_streams, invoked >>

\* the variables of the options of run()
nvars ==
  << config, dry_run, serial, context_ok >>

\* the variables of _run_parallel_pipeline
wvars ==
  << ingested, tf_futures, inline_index, transformed_data, pending_exc,
     parallel_result >>

\* the variables of two runs side by side
ovars ==
  << completion, schema_order >>

\* the variables of a schema edit
tvars ==
  << tag, tag_record, dequantized >>

\* the variables of the encoding of one column
svars ==
  << list_series, encoded >>

\* the variables of the steps modelled on their own
xvars == << avars, nvars, wvars, ovars, tvars, svars >>

vars ==
  << aspect_name, raw_bytes, skip_on_error, pc, i, raw_models, j,
     clean_models, dataframe, error, exit_code, steps, log, cvars, evars,
     rvars, xvars >>

NoDataFrame ==
  [columns |-> << >>, dtypes |-> [x \in {} |-> ""], rows |-> << >>]

NoMetadata ==
  [columns |-> [x \in {} |-> [transform |-> ""]], table |-> NoTableOptions]

Registered(name) == name \in DOMAIN ASPECT_TO_RAW_SCHEMA_MAP

\* an aspect file name without schema
UnknownAspect == "mystery_aspect"

Warning(step, row, what) ==
  [level |-> "warning", step |-> step, row |-> row, what |-> what]

\* ------------------------------------------------------------ the inputs
\* a well-formed value for the field at position p
BaseValue(f, p) ==
  CASE f.type = "bool" -> VBool(TRUE)
    [] f.type = "str" -> VStr("a")
    [] f.enum_clean # "" -> VInt(3)
    [] f.name = "damage_dealt" -> VInt(456)
    [] f.dequantize_by # 0 -> VInt(123)
    [] OTHER -> VInt(p)

BaseRow(cls) == [p \in 1..Len(cls) |-> BaseValue(cls[p], p)]

\* the record cut to its first k values, or extended beyond the arity
WithLength(cls, k) ==
  IF k <= Len(cls) THEN SubSeq(BaseRow(cls), 1, k)
  ELSE BaseRow(cls) \o [x \in 1..(k - Len(cls)) |-> VInt(0)]

\* the position of the last field that is not Optional
LastRequired(cls) ==
  CHOOSE p \in 1..Len(cls) :
    /\ ~cls[p].opt
    /\ \A q \in (p + 1)..Len(cls) : cls[q].opt

EnumPositions(cls) == { p \in 1..Len(cls) : cls[p].enum_clean # "" }

\* every record of every length 0..arity+MaxExtra, every single bad value
FromListPool(cls) ==
  { ListRow(WithLength(cls, k)) : k \in 0..(Len(cls) + MaxExtra) }
    \cup { ListRow([BaseRow(cls) EXCEPT ![p] = bad]) :
             p \in 1..Len(cls), bad \in {VNone, VStr("x"), VInt(99)} }
    \cup { NotAListRow }

\* the rows the blobs of the pipeline specification are made of
PipelinePool(cls) ==
  { ListRow(BaseRow(cls)),
    ListRow([BaseRow(cls) EXCEPT ![1] = VInt(2)]),
    ListRow([BaseRow(cls) EXCEPT ![1] = VStr("x")]),
    ListRow([p \in 1..Len(cls) |->
               IF cls[p].opt THEN VNone ELSE BaseRow(cls)[p]]),
    ListRow(WithLength(cls, Len(cls) + 1)),
    NotAListRow }
    \cup { ListRow([BaseRow(cls) EXCEPT ![p] = VInt(99)]) :
             p \in EnumPositions(cls) }

RECURSIVE SeqsUpTo(_, _)
SeqsUpTo(S, n) ==
  IF n = 0 THEN { << >> }
  ELSE LET shorter == SeqsUpTo(S, n - 1)
       IN shorter \cup { Append(q, x) : q \in { t \in shorter : Len(t) = n - 1 },
                                         x \in S }

AspectNames == (DOMAIN ASPECT_TO_RAW_SCHEMA_MAP) \cup {UnknownAspect}

PoolSchema(name) ==
  IF Registered(name) THEN ASPECT_TO_RAW_SCHEMA_MAP[name]
  ELSE Map_envir_econ_Schema_Raw

\* a file of the output directory: what it holds ("previous": the content
\* of an earlier run), the stream and the blob key it was written from, and
\* how much of the content has reached it ("none", "some", "all")
File(holds, stream, key, part) ==
  [holds |-> holds, stream |-> stream, key |-> key, part |-> part]

NoFiles == [x \in {} |-> File("", "", "", "")]

NoSchema == [x \in {} |-> NoDescriptor]

NoPayloads == [x \in {} |-> NoBlobs]

\* defs_df and game_meta_bytes may be None
NoneTable == [is_none |-> TRUE, df |-> NoDataFrame]

SomeTable(table) == [is_none |-> FALSE, df |-> table]

NoneBytes == [is_none |-> TRUE, bytes |-> << >>]

SomeBytes(bytes) == [is_none |-> FALSE, bytes |-> bytes]

\* the records _run_serial_pipeline holds: where they come from ("" before
\* any, "cache", "fresh") and per aspect how many
RawData(source, counts) == [source |-> source, counts |-> counts]

NoCounts == [x \in {} |-> 0]

\* the cache file: "absent", or what reading it meets
CacheFile(state, counts) == [state |-> state, counts |-> counts]

\* run() is not executing
RunIdle ==
  /\ input_files = << >>
  /\ file_index = 0
  /\ raw_mpk_data = NoCounts
  /\ use_cache = FALSE
  /\ force_reprocess = FALSE
  /\ cache_file = CacheFile("absent", NoCounts)
  /\ cache_writable = FALSE
  /\ raw_data_by_aspect = RawData("", NoCounts)
  /\ dataframes = {}

NoOutcomes == [x \in {} |-> ""]

\* perform_aggregations is not executing
AggregateIdle ==
  /\ stats_registry = << >>
  /\ stats_to_compute = << >>
  /\ unaggregated_streams_to_compute = << >>
  /\ stat_outcomes = NoOutcomes
  /\ stream_outcomes = NoOutcomes
  /\ agg_index = 0
  /\ computed_stats = << >>
  /\ computed_unaggregated_streams = << >>
  /\ invoked = << >>

\* the key sets validate_configurations compares
Config(raw, clean, dequant, enum) ==
  [raw_keys |-> raw, clean_keys |-> clean, dequant_keys |-> dequant,
   enum_keys |-> enum]

\* the maps as shipped
ShippedConfig ==
  Config(DOMAIN ASPECT_TO_RAW_SCHEMA_MAP, DOMAIN ASPECT_TO_CLEAN_SCHEMA_MAP,
         DOMAIN DEQUANTIZATION_CONFIG, DOMAIN ASPECT_ENUM_MAPPINGS)

\* the options of run() is not executing
OptionsIdle ==
  /\ config = ShippedConfig
  /\ dry_run = FALSE
  /\ serial = FALSE
  /\ context_ok = TRUE

\* _run_parallel_pipeline is not executing
ParallelIdle ==
  /\ ingested = << >>
  /\ tf_futures = << >>
  /\ inline_index = 0
  /\ transformed_data = << >>
  /\ pending_exc = ""
  /\ parallel_result = << >>

\* two runs side by side is not executing
OrderIdle ==
  /\ completion = << >>
  /\ schema_order = << >>

\* a schema edit is not executing
TagIdle ==
  /\ tag = << >>
  /\ tag_record = << >>
  /\ dequantized = << >>

\* the encoding of one column is not executing
EncodeIdle ==
  /\ list_series = << >>
  /\ encoded = << >>

\* none of the steps modelled on their own is executing
ExtraIdle ==
  /\ EncodeIdle
  /\ TagIdle
  /\ OrderIdle
  /\ ParallelIdle
  /\ OptionsIdle
  /\ AggregateIdle

\* no output strategy is executing
StrategyIdle ==
  /\ strategy = ""
  /\ all_streams = << >>
  /\ defs_df = NoneTable
  /\ game_meta_bytes = NoneBytes
  /\ stream_index = 0
  /\ streams_schema = NoSchema
  /\ data_payloads = NoPayloads
  /\ static_asset_keys = << >>
  /\ files = NoFiles

InitRest ==
  /\ skip_on_error \in BOOLEAN
  /\ pc = "decode"
  /\ i = 0
  /\ raw_models = << >>
  /\ j = 0
  /\ clean_models = << >>
  /\ dataframe = NoDataFrame
  /\ error = ""
  /\ exit_code = -1
  /\ steps = << "decode" >>
  /\ log = << >>
  /\ df = NoDataFrame
  /\ contract = NoContract
  /\ col_index = 0
  /\ output_df = NoDataFrame
  /\ output_metadata = NoMetadata
  /\ round_mode = "half_to_even"
  /\ StrategyIdle
  /\ RunIdle
  /\ ExtraIdle

\* a replay of one aspect file holding at most MaxRows objects
Init ==
  /\ aspect_name \in AspectNames
  /\ raw_bytes \in SeqsUpTo(PipelinePool(PoolSchema(aspect_name)), MaxRows)
  /\ InitRest

\* a replay of one aspect file holding one object, of any length
InitFromList ==
  /\ aspect_name \in AspectNames
  /\ raw_bytes \in { << r >> : r \in FromListPool(PoolSchema(aspect_name)) }
  /\ InitRest


\* ------------------------------------------------- stream_decode_aspect
\* what the loop body does with the object at index i
decode_one(name, obj) ==
  IF ~obj.is_list
  THEN [ok |-> FALSE, error |-> "SchemaValidationError", model |-> EmptyDict]
  ELSE from_list(ASPECT_TO_RAW_SCHEMA_MAP[name], obj.items)

Fail(exc) ==
  /\ error' = exc
  /\ exit_code' = 1
  /\ pc' = "exit"

Goto(step) ==
  /\ pc' = step
  /\ steps' = Append(steps, step)

\* no raw schema: a warning and an empty stream
DecodeUnregistered ==
  /\ pc = "decode"
  /\ ~Registered(aspect_name)
  /\ log' = Append(log, Warning("decode", -1, "no raw schema"))
  /\ Goto("transform")
  /\ UNCHANGED << aspect_name, raw_bytes, skip_on_error, i, raw_models, j,
                  clean_models, dataframe, error, exit_code >>
  /\ UNCHANGED << cvars, evars, rvars, xvars >>

\* the object validates: the raw record is yielded
DecodeYield ==
  /\ pc = "decode"
  /\ Registered(aspect_name)
  /\ i < Len(raw_bytes)
  /\ decode_one(aspect_name, raw_bytes[i + 1]).ok
  /\ raw_models' =
       Append(raw_models,
              [row |-> i,
               model |-> decode_one(aspect_name, raw_bytes[i + 1]).model])
  /\ i' = i + 1
  /\ UNCHANGED << aspect_name, raw_bytes, skip_on_error, pc, j, clean_models,
                  dataframe, error, exit_code, steps, log >>
  /\ UNCHANGED << cvars, evars, rvars, xvars >>

\* variant: the first invalid object ends the stream silently
DecodeSkipStops ==
  /\ pc = "decode"
  /\ Registered(aspect_name)
  /\ i < Len(raw_bytes)
  /\ ~decode_one(aspect_name, raw_bytes[i + 1]).ok
  /\ skip_on_error
  /\ log' = Append(log, Warning("decode", i, "validation error"))
  /\ i' = Len(raw_bytes)
  /\ UNCHANGED << aspect_name, raw_bytes, skip_on_error, pc, raw_models, j,
                  clean_models, dataframe, error, exit_code, steps >>
  /\ UNCHANGED << cvars, evars, rvars, xvars >>

\* SchemaValidationError under skip_on_error: warn and continue
DecodeSkip ==
  /\ pc = "decode"
  /\ Registered(aspect_name)
  /\ i < Len(raw_bytes)
  /\ ~decode_one(aspect_name, raw_bytes[i + 1]).ok
  /\ skip_on_error
  /\ log' = Append(log, Warning("decode", i, "validation error"))
  /\ i' = i + 1
  /\ UNCHANGED << aspect_name, raw_bytes, skip_on_error, pc, raw_models, j,
                  clean_models, dataframe, error, exit_code, steps >>
  /\ UNCHANGED << cvars, evars, rvars, xvars >>

\* SchemaValidationError without skip_on_error: the stream ends with it,
\* run() turns it into exit code 1
DecodeRaise ==
  /\ pc = "decode"
  /\ Registered(aspect_name)
  /\ i < Len(raw_bytes)
  /\ ~decode_one(aspect_name, raw_bytes[i + 1]).ok
  /\ ~skip_on_error
  /\ Fail("SchemaValidationError")
  /\ UNCHANGED << aspect_name, raw_bytes, skip_on_error, i, raw_models, j,
                  clean_models, dataframe, steps, log >>
  /\ UNCHANGED << cvars, evars, rvars, xvars >>

\* the blob is exhausted
DecodeEnd ==
  /\ pc = "decode"
  /\ Registered(aspect_name)
  /\ i = Len(raw_bytes)
  /\ Goto("transform")
  /\ UNCHANGED << aspect_name, raw_bytes, skip_on_error, i, raw_models, j,
                  clean_models, dataframe, error, exit_code, log >>
  /\ UNCHANGED << cvars, evars, rvars, xvars >>

\* ---------------------------------------------- stream_transform_aspect
\* no clean schema: a warning and an empty stream
TransformNoSchema ==
  /\ pc = "transform"
  /\ aspect_name \notin DOMAIN ASPECT_TO_CLEAN_SCHEMA_MAP
  /\ log' = Append(log, Warning("transform", -1, "no clean schema"))
  /\ Goto("materialize")
  /\ UNCHANGED << aspect_name, raw_bytes, skip_on_error, i, raw_models, j,
                  clean_models, dataframe, error, exit_code >>
  /\ UNCHANGED << cvars, evars, rvars, xvars >>

\* the warning of an unknown enum code, if the row has one
EnumWarnings(name, r) ==
  LET rules == enum_rules(name)
      dct == Dequantize(name, r.model)
      bad == SelectSeq(rules, LAMBDA rule :
               /\ rule.raw_field \in DOMAIN dct
               /\ dct[rule.raw_field].k # "none"
               /\ ~EnumHasCode(rule.enum_key, dct[rule.raw_field].n))
  IN [x \in 1..Len(bad) |-> Warning("transform", r.row, "invalid enum value")]

TransformYield ==
  /\ pc = "transform"
  /\ aspect_name \in DOMAIN ASPECT_TO_CLEAN_SCHEMA_MAP
  /\ j < Len(raw_models)
  /\ transform_one(aspect_name, raw_models[j + 1].model).ok
  /\ clean_models' =
       Append(clean_models,
              [row |-> raw_models[j + 1].row,
               model |-> transform_one(aspect_name,
                                       raw_models[j + 1].model).model])
  /\ log' = log \o EnumWarnings(aspect_name, raw_models[j + 1])
  /\ j' = j + 1
  /\ UNCHANGED << aspect_name, raw_bytes, skip_on_error, pc, i, raw_models,
                  dataframe, error, exit_code, steps >>
  /\ UNCHANGED << cvars, evars, rvars, xvars >>

\* ValidationError under skip_on_error: warn and continue
TransformSkip ==
  /\ pc = "transform"
  /\ aspect_name \in DOMAIN ASPECT_TO_CLEAN_SCHEMA_MAP
  /\ j < Len(raw_models)
  /\ ~transform_one(aspect_name, raw_models[j + 1].model).ok
  /\ skip_on_error
  /\ log' = (log \o EnumWarnings(aspect_name, raw_models[j + 1]))
              \o << Warning("transform", raw_models[j + 1].row,
                            "skipping row") >>
  /\ j' = j + 1
  /\ UNCHANGED << aspect_name, raw_bytes, skip_on_error, pc, i, raw_models,
                  clean_models, dataframe, error, exit_code, steps >>
  /\ UNCHANGED << cvars, evars, rvars, xvars >>

\* variant: the row is dropped although skip_on_error is false
TransformRaiseContinues ==
  /\ pc = "transform"
  /\ aspect_name \in DOMAIN ASPECT_TO_CLEAN_SCHEMA_MAP
  /\ j < Len(raw_models)
  /\ ~transform_one(aspect_name, raw_models[j + 1].model).ok
  /\ ~skip_on_error
  /\ log' = (log \o EnumWarnings(aspect_name, raw_models[j + 1]))
              \o << Warning("transform", raw_models[j + 1].row,
                            "skipping row") >>
  /\ j' = j + 1
  /\ UNCHANGED << aspect_name, raw_bytes, skip_on_error, pc, i, raw_models,
                  clean_models, dataframe, error, exit_code, steps >>
  /\ UNCHANGED << cvars, evars, rvars, xvars >>

\* ValidationError without skip_on_error: TransformationError, exit code 1
TransformRaise ==
  /\ pc = "transform"
  /\ aspect_name \in DOMAIN ASPECT_TO_CLEAN_SCHEMA_MAP
  /\ j < Len(raw_models)
  /\ ~transform_one(aspect_name, raw_models[j + 1].model).ok
  /\ ~skip_on_error
  /\ log' = log \o EnumWarnings(aspect_name, raw_models[j + 1])
  /\ Fail("TransformationError")
  /\ UNCHANGED << aspect_name, raw_bytes, skip_on_error, i, raw_models, j,
                  clean_models, dataframe, steps >>
  /\ UNCHANGED << cvars, evars, rvars, xvars >>

TransformEnd ==
  /\ pc = "transform"
  /\ aspect_name \in DOMAIN ASPECT_TO_CLEAN_SCHEMA_MAP
  /\ j = Len(raw_models)
  /\ Goto("materialize")
  /\ UNCHANGED << aspect_name, raw_bytes, skip_on_error, i, raw_models, j,
                  clean_models, dataframe, error, exit_code, log >>
  /\ UNCHANGED << cvars, evars, rvars, xvars >>

\* ------------------------------------ create_polars_dataframe_for_aspect
\* no clean schema: ParserError, which run() turns into exit code 1
MaterializeNoSchema ==
  /\ pc = "materialize"
  /\ aspect_name \notin DOMAIN ASPECT_TO_CLEAN_SCHEMA_MAP
  /\ Fail("ParserError")
  /\ UNCHANGED << aspect_name, raw_bytes, skip_on_error, i, raw_models, j,
                  clean_models, dataframe, steps, log >>
  /\ UNCHANGED << cvars, evars, rvars, xvars >>

\* variant: the table holds the records in reverse order
create_polars_dataframe_reversed(name, models) ==
  LET cls == ASPECT_TO_CLEAN_SCHEMA_MAP[name]
  IN [columns |-> [p \in 1..Len(cls) |-> cls[p].name],
      dtypes |-> [nm \in FieldNames(cls) |->
                    polars_dtype(cls[FieldIndex(cls, nm)])],
      rows |-> [p \in 1..Len(models) |->
                  [row |-> models[Len(models) + 1 - p].row,
                   rec |-> model_to_dict_for_polars(
                             models[Len(models) + 1 - p].model)]]]

\* pl.DataFrame(list of dicts, schema): one row per clean model, in order
create_polars_dataframe_for_aspect(name, models) ==
  LET cls == ASPECT_TO_CLEAN_SCHEMA_MAP[name]
  IN [columns |-> [p \in 1..Len(cls) |-> cls[p].name],
      dtypes |-> [nm \in FieldNames(cls) |->
                    polars_dtype(cls[FieldIndex(cls, nm)])],
      rows |-> [p \in 1..Len(models) |->
                  [row |-> models[p].row,
                   rec |-> model_to_dict_for_polars(models[p].model)]]]

Materialize ==
  /\ pc = "materialize"
  /\ aspect_name \in DOMAIN ASPECT_TO_CLEAN_SCHEMA_MAP
  /\ dataframe' = create_polars_dataframe_for_aspect(aspect_name, clean_models)
  /\ IF clean_models = << >>
     THEN log' = Append(log, Warning("materialize", -1, "no data"))
     ELSE log' = log
  /\ Goto("aggregate")
  /\ UNCHANGED << aspect_name, raw_bytes, skip_on_error, i, raw_models, j,
                  clean_models, error, exit_code >>
  /\ UNCHANGED << cvars, evars, rvars, xvars >>

\* ------------------------------------------------ the later steps of run
\* steps 6 to 8 (aggregation, output contract engine, encoder) follow the
\* tables; a step that raises ends the run with exit code 1
LaterStepOk ==
  /\ pc \in {"aggregate", "output_transform", "generate_output"}
  /\ IF pc = "aggregate" THEN Goto("output_transform")
     ELSE IF pc = "output_transform" THEN Goto("generate_output")
     ELSE /\ pc' = "exit"
          /\ steps' = steps
  /\ exit_code' = (IF pc = "generate_output" THEN 0 ELSE exit_code)
  /\ UNCHANGED << aspect_name, raw_bytes, skip_on_error, i, raw_models, j,
                  clean_models, dataframe, error, log >>
  /\ UNCHANGED << cvars, evars, rvars, xvars >>

LaterStepRaise ==
  /\ pc \in {"output_transform", "generate_output"}
  /\ Fail(IF pc = "output_transform" THEN "TransformationError"
          ELSE "OutputGenerationError")
  /\ UNCHANGED << aspect_name, raw_bytes, skip_on_error, i, raw_models, j,
                  clean_models, dataframe, steps, log >>
  /\ UNCHANGED << cvars, evars, rvars, xvars >>

Next ==
  \/ DecodeUnregistered
  \/ DecodeYield
  \/ DecodeSkip
  \/ DecodeRaise
  \/ DecodeEnd
  \/ TransformNoSchema
  \/ TransformYield
  \/ TransformSkip
  \/ TransformRaise
  \/ TransformEnd
  \/ MaterializeNoSchema
  \/ Materialize
  \/ LaterStepOk
  \/ LaterStepRaise

Spec == Init /\ [][Next]_vars

SpecFromList == InitFromList /\ [][Next]_vars



\* ------------------------------------------------- properties: decoder
Last(seq) == seq[Len(seq)]

\* the one object of the blob has been through the loop body of the decoder
FromListDone ==
  /\ Registered(aspect_name)
  /\ Len(raw_bytes) = 1
  /\ raw_bytes[1].is_list
  /\ \/ i = 1
     \/ error = "SchemaValidationError"

\* C1, as stated: a list of length k decodes iff k <= arity(S).
C1_ArityOnly ==
  FromListDone =>
    (raw_models # << >>
       <=> Len(raw_bytes[1].items) <= Len(ASPECT_TO_RAW_SCHEMA_MAP[aspect_name]))

\* C1, amended: a list of length k decodes iff k <= arity(S), every value
\* given is accepted by the type of its field and every field beyond
\* position k is Optional; the record that results holds null in every field
\* beyond position k; a list longer than the arity is rejected with
\* SchemaValidationError (dropped with a warning under skip_on_error).
C1_FromList ==
  FromListDone =>
    LET cls == ASPECT_TO_RAW_SCHEMA_MAP[aspect_name]
        items == raw_bytes[1].items
        k == Len(items)
    IN /\ raw_models # << >>
            <=> /\ k <= Len(cls)
                /\ \A p \in 1..k : RawFieldAccepts(cls[p], items[p])
                /\ \A p \in (k + 1)..Len(cls) : cls[p].opt
       /\ raw_models # << >> =>
            \A p \in (k + 1)..Len(cls) :
              raw_models[1].model[cls[p].name] = VNone
       /\ k > Len(cls) =>
            /\ raw_models = << >>
            /\ IF skip_on_error
               THEN log[1] = Warning("decode", 0, "validation error")
               ELSE error = "SchemaValidationError" /\ exit_code = 1

\* an under-length unit_events record, cut after its last required field,
\* is decoded and its trailing fields are null
C1_Witness ==
  /\ FromListDone
  /\ aspect_name = "unit_events"
  /\ Len(raw_bytes[1].items) = LastRequired(Unit_events_Schema_Raw)
  /\ Len(raw_bytes[1].items) < Len(Unit_events_Schema_Raw)
  /\ raw_models # << >>
  /\ raw_models[1].model[Last(Unit_events_Schema_Raw).name] = VNone

\* the indices 0..n-1 in order
Indices(n) == [p \in 1..n |-> p - 1]

\* the states in which the decoder runs or has just ended; no later step
\* changes i or raw_models
DecoderObserved ==
  \/ pc = "decode"
  \/ pc = "transform" /\ j = 0
  \/ pc = "exit" /\ steps = << "decode" >>

\* C2: the records yielded so far are exactly the valid objects among those
\* consumed, in input order; under skip_on_error the decoder consumes the
\* whole blob; without it the objects before the first invalid one are
\* yielded, the stream ends there with SchemaValidationError and nothing is
\* yielded after it.
C2_DecodeStream ==
  (Registered(aspect_name) /\ DecoderObserved) =>
    LET valid(r) == decode_one(aspect_name, raw_bytes[r + 1]).ok
        expected == SelectSeq(Indices(i), valid)
    IN /\ Len(raw_models) = Len(expected)
       /\ \A p \in 1..Len(expected) :
            /\ raw_models[p].row = expected[p]
            /\ raw_models[p].model =
                 decode_one(aspect_name, raw_bytes[expected[p] + 1]).model
       /\ (skip_on_error /\ pc # "decode") => i = Len(raw_bytes)
       /\ ~skip_on_error =>
            /\ \A r \in 0..(i - 1) : valid(r)
            /\ error = "SchemaValidationError" =>
                 /\ i < Len(raw_bytes)
                 /\ ~valid(i)
                 /\ pc = "exit"
                 /\ steps = << "decode" >>
            /\ (pc # "decode" /\ error # "SchemaValidationError") =>
                 i = Len(raw_bytes)

\* under skip_on_error the first of three objects is invalid and dropped,
\* the two after it are yielded
C2_Witness ==
  /\ Registered(aspect_name)
  /\ skip_on_error
  /\ pc = "transform"
  /\ Len(raw_bytes) = 3
  /\ ~decode_one(aspect_name, raw_bytes[1]).ok
  /\ Len(raw_models) = 2
  /\ raw_models[1].row = 1
  /\ raw_models[2].row = 2

\* C3, as stated: an aspect without raw schema never aborts the replay.
C3_UnregisteredContinues ==
  ~Registered(aspect_name) => ~(pc = "exit" /\ error = "ParserError")

\* ---------------------------------------------- properties: transformer
TransformFails(r) == ~transform_one(aspect_name, r.model).ok

\* the transformation step is over: the table is about to be built, or the
\* run ended in the step
TransformOver ==
  \/ pc = "materialize"
  \/ pc = "exit" /\ Last(steps) = "transform"

SomeRowFails == \E p \in 1..Len(raw_models) : TransformFails(raw_models[p])

EndedInTransform ==
  /\ pc = "exit"
  /\ error = "TransformationError"
  /\ exit_code = 1
  /\ Last(steps) = "transform"

\* C4, as stated: a row that fails clean validation ends the run with
\* TransformationError whatever skip_on_error.
C4_AlwaysFatal == (TransformOver /\ SomeRowFails) => EndedInTransform

\* C4, amended: without skip_on_error a row that fails clean validation
\* ends the run in the transformation step with TransformationError and exit
\* code 1, no later step runs and no table is built; under skip_on_error the
\* row is dropped with a warning and the run goes on.
C4_FatalUnlessSkip ==
  (TransformOver /\ SomeRowFails) =>
    IF skip_on_error
    THEN /\ ~EndedInTransform
         /\ pc = "materialize"
         /\ \A p \in 1..Len(raw_models) :
              TransformFails(raw_models[p]) =>
                /\ \A q \in 1..Len(clean_models) :
                     clean_models[q].row # raw_models[p].row
                /\ \E w \in 1..Len(log) :
                     log[w] = Warning("transform", raw_models[p].row,
                                      "skipping row")
    ELSE /\ EndedInTransform
         /\ dataframe = NoDataFrame
         /\ TransformFails(raw_models[j + 1])
         /\ \A p \in 1..j : ~TransformFails(raw_models[p])

\* without skip_on_error a unit_events row fails clean validation after a
\* row that passed: the run ends in the transformation step
C4_Witness ==
  /\ ~skip_on_error
  /\ aspect_name = "unit_events"
  /\ EndedInTransform
  /\ j = 1
  /\ Len(clean_models) = 1
  /\ TransformFails(raw_models[2])

\* the rows whose only defect is an enum code outside the rule's enum kind
UnknownEnumOnly(r) ==
  \E x \in 1..Len(enum_rules(aspect_name)) :
    LET rule == enum_rules(aspect_name)[x]
    IN /\ r.model[rule.raw_field].k = "int"
       /\ ~EnumHasCode(rule.enum_key, r.model[rule.raw_field].n)
       /\ transform_one(aspect_name,
                        [r.model EXCEPT ![rule.raw_field] = VInt(1)]).ok

\* C5, as stated: a row with an unknown enum code is never an error and
\* never dropped; its clean record holds null in the clean field.
C5_UnknownEnumIsNull ==
  \A p \in 1..Len(raw_models) :
    (/\ UnknownEnumOnly(raw_models[p])
     /\ \/ p <= j
        \/ p = j + 1 /\ pc = "exit" /\ Last(steps) = "transform")
      => /\ ~EndedInTransform
         /\ \E q \in 1..Len(clean_models) :
              /\ clean_models[q].row = raw_models[p].row
              /\ \A x \in 1..Len(enum_rules(aspect_name)) :
                   LET rule == enum_rules(aspect_name)[x]
                   IN ~EnumHasCode(rule.enum_key,
                                   raw_models[p].model[rule.raw_field].n)
                        => clean_models[q].model[rule.clean_field] = VNone

\* every enum-coded field of the raw record holds a code of its enum
KnownCodes(r) ==
  \A x \in 1..Len(enum_rules(aspect_name)) :
    LET rule == enum_rules(aspect_name)[x]
    IN /\ r.model[rule.raw_field].k = "int"
       /\ EnumHasCode(rule.enum_key, r.model[rule.raw_field].n)

\* the fields of a clean schema declared without default
RequiredFields(cls) == { cls[x].name : x \in { y \in 1..Len(cls) : cls[y].required } }

\* C28: for every registered aspect a raw record that passed decoding and
\* holds known enum codes becomes a mapping that validates against the
\* clean schema of the aspect: after the enum rules the keys of the mapping
\* cover every required field of the clean schema, commands_log included
C28_CleanRecordValidates ==
  (/\ Registered(aspect_name)
   /\ aspect_name \in DOMAIN ASPECT_TO_CLEAN_SCHEMA_MAP) =>
    \A p \in 1..Len(raw_models) :
      KnownCodes(raw_models[p]) =>
        /\ RequiredFields(ASPECT_TO_CLEAN_SCHEMA_MAP[aspect_name])
             \subseteq DOMAIN transformed_dict(aspect_name, raw_models[p].model)
        /\ transform_one(aspect_name, raw_models[p].model).ok

\* the raw record a clean record was made of
RawOf(c) == CHOOSE r \in { raw_models[p] : p \in 1..Len(raw_models) } :
              r.row = c.row

C7_RowOrder ==
  pc = "aggregate" =>
    LET survivors == SelectSeq(raw_models, LAMBDA r : ~TransformFails(r))
        rows == dataframe.rows
    IN /\ Len(rows) = Len(survivors)
       /\ \A p \in 1..Len(rows) :
            /\ rows[p].row = survivors[p].row
            /\ rows[p].rec =
                 model_to_dict_for_polars(
                   transform_one(aspect_name, survivors[p].model).model)
       /\ \A p, q \in 1..Len(rows) : p < q => rows[p].row < rows[q].row

\* under skip_on_error the middle one of three objects is dropped: the table
\* holds the first and the third, in that order
C7_Witness ==
  /\ pc = "aggregate"
  /\ skip_on_error
  /\ Len(raw_bytes) = 3
  /\ Len(dataframe.rows) = 2
  /\ dataframe.rows[1].row = 0
  /\ dataframe.rows[2].row = 2
  /\ dataframe.rows[1].rec # dataframe.rows[2].rec


\* ------------------------------------------- output contract engine
\* the tables and contracts handed to _transform_single_df
Table(columns, dtypes, recs) ==
  [columns |-> columns, dtypes |-> dtypes,
   rows |-> [p \in 1..Len(recs) |-> [row |-> p - 1, rec |-> recs[p]]]]

ArmyValues ==
  { VFloat(0, 10), VFloat(1234, 10), VFloat(9999, 10), VFloat(125, 100),
    VFloat(127, 100), VFloat(-5, 10), VNone }

ArmyRows ==
  { [frame |-> VInt(30), team_id |-> VInt(0), army_value |-> v] :
      v \in ArmyValues }
    \cup { [frame |-> VInt(-1), team_id |-> VInt(0),
            army_value |-> VFloat(0, 10)] }

ArmyTables ==
  { Table(<< "frame", "team_id", "army_value" >>,
          [frame |-> "Int64", team_id |-> "Int64", army_value |-> "Float64"],
          recs) : recs \in SeqsUpTo(ArmyRows, MaxTableRows) }

\* a contract that keeps every other rule of c: the first, the third, ...
PartialContract(c) ==
  [c EXCEPT !.columns =
     [p \in 1..((Len(c.columns) + 1) \div 2) |-> c.columns[2 * p - 1]]]

\* contracts that reach the remaining branches of the engine
ProbeContracts ==
  { [columns |-> << CastRule("no_such_column", "UInt32"),
                    QuantizeRule("army_value", "Int8", "dynamic", NoScale) >>,
     table_options |-> NoTableOptions],
    [columns |-> << QuantizeRule("army_value", "UInt32", "static", NoScale) >>,
     table_options |-> NoTableOptions],
    [columns |-> << CastRule("frame", "") >>,
     table_options |-> NoTableOptions] }

ArmyContracts ==
  { army_value_timeline_contract, NoContract,
    PartialContract(army_value_timeline_contract) } \cup ProbeContracts

\* the raw records of an aspect that reach its table
TableRowPool(name) ==
  LET cls == ASPECT_TO_RAW_SCHEMA_MAP[name]
      candidates ==
        PipelinePool(cls)
          \cup { ListRow([BaseRow(cls) EXCEPT ![p] = VInt(c)]) :
                   p \in EnumPositions(cls), c \in 1..5 }
          \cup { ListRow([BaseRow(cls) EXCEPT ![2] = VInt(70000)]) }
  IN { r \in candidates :
         /\ decode_one(name, r).ok
         /\ transform_one(name, decode_one(name, r).model).ok }

\* the table the pipeline builds from a sequence of such records
AspectTable(name, raws) ==
  create_polars_dataframe_for_aspect(name,
    [p \in 1..Len(raws) |->
       [row |-> p - 1,
        model |-> transform_one(name, decode_one(name, raws[p]).model).model]])

StreamNames ==
  { "unit_events", "unit_positions", "team_stats", "damage_log",
    "map_envir_econ" }

\* OUTPUT_TRANSFORMATION_CONFIG.get(name, {})
ContractFor(name) ==
  IF name \in DOMAIN OUTPUT_CONTRACTS THEN OUTPUT_CONTRACTS[name]
  ELSE NoContract

ContractInputs ==
  { << t, c >> : t \in ArmyTables, c \in ArmyContracts }
    \cup UNION { { << AspectTable(name, raws), c >> :
                     raws \in SeqsUpTo(TableRowPool(name), MaxStreamRows),
                     c \in { ContractFor(name), NoContract,
                             PartialContract(ContractFor(name)) } } :
                 name \in StreamNames }

RoundModes == { "half_to_even", "half_away_from_zero" }

\* _transform_single_df is entered: the table is cloned, the metadata holds
\* the contract's table_options
InitContract ==
  /\ \E input \in ContractInputs :
       /\ df = input[1]
       /\ contract = input[2]
  /\ round_mode \in RoundModes
  /\ col_index = 0
  /\ output_df = df
  /\ output_metadata =
       [columns |-> NoMetadata.columns, table |-> contract.table_options]
  /\ pc = "contract"
  /\ error = ""
  /\ log = << >>
  /\ aspect_name = ""
  /\ raw_bytes = << >>
  /\ skip_on_error = FALSE
  /\ i = 0
  /\ raw_models = << >>
  /\ j = 0
  /\ clean_models = << >>
  /\ dataframe = NoDataFrame
  /\ exit_code = -1
  /\ steps = << >>
  /\ StrategyIdle
  /\ RunIdle
  /\ ExtraIdle

RuleResult ==
  apply_rule(df, output_df, output_metadata.columns,
             contract.columns[col_index + 1], round_mode)

pvars ==
  << aspect_name, raw_bytes, skip_on_error, i, raw_models, j, clean_models,
     dataframe, exit_code, steps, evars, rvars, xvars >>

\* the rule is applied (or is of a kind the loop has no branch for)
ContractApply ==
  /\ pc = "contract"
  /\ col_index < Len(contract.columns)
  /\ RuleResult.status = "ok"
  /\ output_df' = RuleResult.table
  /\ output_metadata' = [output_metadata EXCEPT !.columns = RuleResult.meta]
  /\ col_index' = col_index + 1
  /\ UNCHANGED << df, contract, round_mode, pc, error, log, pvars >>

\* ColumnNotFoundError: warn and continue
ContractColumnMissing ==
  /\ pc = "contract"
  /\ col_index < Len(contract.columns)
  /\ RuleResult.status = "missing"
  /\ log' = Append(log, Warning("contract", col_index, "column not found"))
  /\ col_index' = col_index + 1
  /\ UNCHANGED << df, contract, round_mode, output_df, output_metadata, pc,
                  error, pvars >>

\* any other exception: TransformationError
ContractRaise ==
  /\ pc = "contract"
  /\ col_index < Len(contract.columns)
  /\ RuleResult.status = "error"
  /\ error' = "TransformationError"
  /\ pc' = "contract_failed"
  /\ UNCHANGED << df, contract, round_mode, output_df, output_metadata,
                  col_index, log, pvars >>

\* return output_df, output_metadata
ContractReturn ==
  /\ pc = "contract"
  /\ col_index = Len(contract.columns)
  /\ pc' = "contract_done"
  /\ UNCHANGED << df, contract, round_mode, output_df, output_metadata,
                  col_index, error, log, pvars >>

NextContract ==
  \/ ContractApply
  \/ ContractColumnMissing
  \/ ContractRaise
  \/ ContractReturn

SpecContract == InitContract /\ [][NextContract]_vars

\* ------------------------------------- properties: output contract engine
ContractDone == pc = "contract_done"

\* the rules the contract holds for a column
RulesFor(col) ==
  { contract.columns[r] : r \in { x \in 1..Len(contract.columns) :
                                    contract.columns[x].col = col } }

TableColumns == { df.columns[x] : x \in 1..Len(df.columns) }

\* the kind the metadata is said to record for a rule
RuleKind(rule) ==
  CASE rule.transform = "cast" -> "cast"
    [] rule.transform = "quantize" /\ rule.ptype = "static" -> "static_quantize"
    [] rule.transform = "quantize" -> "symmetric_quantize"
    [] OTHER -> rule.transform

\* C8, as stated: the metadata has an entry for every column of the table,
\* with original_dtype and transform = none / cast / static_quantize.
C8_EveryColumn ==
  ContractDone =>
    \A col \in TableColumns :
      /\ col \in DOMAIN output_metadata.columns
      /\ output_metadata.columns[col].original_dtype = df.dtypes[col]
      /\ output_metadata.columns[col].transform =
           (IF RulesFor(col) = {} THEN "none"
            ELSE RuleKind(CHOOSE rule \in RulesFor(col) : TRUE))

\* C8, amended: the metadata has an entry for every column of the table
\* that the contract gives a cast or a quantize rule, and for no column
\* without a rule or outside the table; each entry holds original_dtype, the
\* dtype of the column in the table handed in, and transform = none for a
\* cast rule, static_quantize for a static quantize rule, symmetric_quantize
\* for a dynamic one; a column without a rule is passed through unchanged.
C8_ContractColumns ==
  ContractDone =>
    /\ DOMAIN output_metadata.columns \subseteq TableColumns
    /\ \A col \in TableColumns :
         IF RulesFor(col) = {}
         THEN /\ col \notin DOMAIN output_metadata.columns
              /\ get_column(output_df, col) = get_column(df, col)
              /\ output_df.dtypes[col] = df.dtypes[col]
         ELSE LET rule == CHOOSE r \in RulesFor(col) : TRUE
              IN rule.transform \in {"cast", "quantize"} =>
                   /\ col \in DOMAIN output_metadata.columns
                   /\ output_metadata.columns[col].original_dtype
                        = df.dtypes[col]
                   /\ output_metadata.columns[col].transform =
                        (IF rule.transform = "cast" THEN "none"
                         ELSE RuleKind(rule))

\* a partial contract over the army value table: frame is cast, team_id has
\* no rule, army_value is quantized
C8_Witness ==
  /\ ContractDone
  /\ contract = PartialContract(army_value_timeline_contract)
  /\ Len(df.rows) = 2
  /\ "team_id" \notin DOMAIN output_metadata.columns
  /\ output_metadata.columns["frame"].transform = "none"
  /\ output_metadata.columns["frame"].original_dtype = "Int64"
  /\ output_metadata.columns["army_value"].transform = "static_quantize"

\* C9, as stated: under enum_to_int(enum_key, to_type) a member name becomes
\* the member's code and the column's metadata records enum_map, so that
\* looking the output up in enum_map gives the name back.
C9_EnumRoundTrip ==
  ContractDone =>
    \A r \in 1..Len(contract.columns) :
      LET rule == contract.columns[r]
      IN (rule.transform = "enum_to_int" /\ HasColumn(df, rule.col)) =>
           /\ rule.col \in DOMAIN output_metadata.columns
           /\ "enum_map" \in DOMAIN output_metadata.columns[rule.col]
           /\ \A p \in 1..Len(df.rows) :
                LET name == df.rows[p].rec[rule.col]
                    out == output_df.rows[p].rec[rule.col]
                IN name.k = "str" =>
                     /\ out.k = "int"
                     /\ EnumHasCode(rule.enum_key, out.n)
                     /\ EnumOf(rule.enum_key, out.n).s = name.s

\* the static quantize rules applied so far
StaticApplied ==
  { r \in 1..col_index :
      /\ contract.columns[r].transform = "quantize"
      /\ contract.columns[r].ptype = "static"
      /\ HasColumn(df, contract.columns[r].col) }

\* C10: a column under quantize(static, scale, to_type) holds, for every
\* value v, the integer nearest to v/scale (a tie goes to one of its two
\* neighbours), in dtype to_type, null for null; the metadata records
\* static_quantize and the contract's scale; output * scale is within
\* scale/2 of v.
C10_StaticQuantize ==
  \A r \in StaticApplied :
    LET rule == contract.columns[r]
        entry == output_metadata.columns[rule.col]
    IN /\ entry.transform = "static_quantize"
       /\ entry.scale = rule.scale
       /\ output_df.dtypes[rule.col] = rule.to_type
       /\ \A p \in 1..Len(df.rows) :
            LET v == df.rows[p].rec[rule.col]
                out == output_df.rows[p].rec[rule.col]
                gap == out.n * rule.scale.n * v.d - v.n * rule.scale.d
            IN IF v.k = "none" THEN out = VNone
               ELSE /\ out.k \in {"int", "float"}
                    /\ out.d = 1
                    /\ out.n >= DtypeMin(rule.to_type)
                    /\ out.n <= DtypeMax(rule.to_type)
                    /\ 2 * (IF gap >= 0 THEN gap ELSE -gap)
                         <= rule.scale.n * v.d

\* S4: [0.0, 123.4, 999.9] under scale 0.1 becomes [0, 1234, 9999]
C10_Witness ==
  /\ ContractDone
  /\ contract = army_value_timeline_contract
  /\ get_column(df, "army_value")
       = << VFloat(0, 10), VFloat(1234, 10), VFloat(9999, 10) >>
  /\ get_column(output_df, "army_value")
       = << VInt(0), VInt(1234), VInt(9999) >>
  /\ output_metadata.columns["army_value"].scale = Frac(1, 10)
  /\ output_metadata.columns["army_value"].transform = "static_quantize"

\* ===================================================== output strategies
\* OutputStrategy.write with one of the three binary strategies
Hybrid == "HybridMessagePackZstStrategy"

RowMajorBundle == "RowMajorBundleZstStrategy"

ColumnarBundle == "ColumnarBundleZstStrategy"

Strategies == { Hybrid, RowMajorBundle, ColumnarBundle }

\* a stream of all_streams: its name and the (df, metadata) of the engine
Stream(name, table, metadata) ==
  [name |-> name, df |-> table, metadata |-> metadata]

\* the stream the contract engine makes of a table, when it does not fail
EngineStreams(name, tables, c) ==
  LET results == { transform_single_df(t, c, "half_to_even") : t \in tables }
  IN { Stream(name, r.df, r.metadata) : r \in { x \in results : x.ok } }

\* metadata whose entry for col carries a null_encoding of its own
WithColumnSentinel(metadata, col, value) ==
  [metadata EXCEPT !.columns =
     MetaSet(metadata.columns, col,
             [transform |-> "none", original_dtype |-> "Int64",
              null_encoding |-> value])]

\* unit events reduced to three columns, as the stats hand them on
EventRows ==
  { [frame |-> VInt(30), unit_id |-> VInt(7), attacker_unit_id |-> VInt(9)],
    [frame |-> VInt(60), unit_id |-> VInt(8), attacker_unit_id |-> VNone],
    [frame |-> VInt(90), unit_id |-> VInt(300),
     attacker_unit_id |-> VInt(70000)] }

EventTables ==
  { Table(<< "frame", "unit_id", "attacker_unit_id" >>,
          [frame |-> "Int64", unit_id |-> "Int64",
           attacker_unit_id |-> "Int64"], recs) :
      recs \in SeqsUpTo(EventRows, MaxEncodeRows) }

\* every column cast to to_type under the given table options
AllCastContract(to_type, options) ==
  [columns |-> << CastRule("frame", to_type), CastRule("unit_id", to_type),
                  CastRule("attacker_unit_id", to_type) >>,
   table_options |-> options]

EventContracts ==
  { AllCastContract("UInt32", TableOptions("row-major-mixed", TRUE, 0)),
    AllCastContract("UInt32", TableOptions("row-major-mixed", TRUE, 7)),
    AllCastContract("UInt32", TableOptions("row-major-mixed", FALSE, 0)),
    AllCastContract("Int32", TableOptions("columnar", TRUE, -2)),
    AllCastContract("Float32", TableOptions("columnar", FALSE, 0)),
    AllCastContract("Float64", TableOptions("", TRUE, 5)),
    AllCastContract("Int16", NoTableOptions) }

\* streams, and their columnar ones again with a sentinel of the column
WithSentinelVariants(plain) ==
  plain \cup
    { [s EXCEPT !.metadata =
         WithColumnSentinel(s.metadata, "attacker_unit_id", -1)] :
        s \in { t \in plain : layout_of(t.metadata) = "columnar" } }

EventStreams ==
  WithSentinelVariants(UNION { EngineStreams("unit_events", EventTables, c) :
                                 c \in EventContracts })

\* a table with a text column and two list columns
TextRows ==
  { [name |-> VStr("ab"), path |-> VList(<< VInt(1), VInt(2) >>),
     weights |-> VList(<< VFloat(1, 2) >>)],
    [name |-> VStr("u+00e9"), path |-> VList(<< >>),
     weights |-> VList(<< VNone, VFloat(3, 1) >>)],
    [name |-> VStr(""), path |-> VList(<< VInt(300) >>),
     weights |-> VList(<< >>)],
    [name |-> VStr("u+20ac"), path |-> VList(<< VNone >>),
     weights |-> VList(<< >>)],
    [name |-> VNone, path |-> VList(<< VInt(-1) >>),
     weights |-> VList(<< >>)] }

TextTables ==
  { Table(<< "name", "path", "weights" >>,
          [name |-> "Utf8", path |-> "List(Int16)",
           weights |-> "List(Float32)"], recs) :
      recs \in SeqsUpTo(TextRows, MaxEncodeRows) }

TextStreams == EngineStreams("unit_names", TextTables, NoContract)

\* one-row tables with a Boolean or a Utf8 column, the cell null or not
FlagTables ==
  { Table(<< "frame", "is_firing" >>,
          [frame |-> "Int64", is_firing |-> "Boolean"],
          << [frame |-> VInt(30), is_firing |-> v] >>) :
      v \in { VBool(TRUE), VNone } }
    \cup { Table(<< "frame", "label" >>,
                 [frame |-> "Int64", label |-> "Utf8"],
                 << [frame |-> VInt(30), label |-> v] >>) :
             v \in { VStr("ab"), VNone } }

\* a contract without column rules that asks for row-major packing
RowMajorContracts ==
  { [columns |-> << >>,
     table_options |-> TableOptions("row-major-mixed", TRUE, 0)],
    [columns |-> << >>,
     table_options |-> TableOptions("row-major-mixed", FALSE, 0)] }

FlagStreams ==
  UNION { EngineStreams("unit_flags", FlagTables, c) :
            c \in RowMajorContracts }

\* the streams of the pipeline's own aspects under their contracts
AspectStreams ==
  UNION { EngineStreams(name,
            { AspectTable(name, raws) :
                raws \in SeqsUpTo(TableRowPool(name), MaxAspectRows) },
            ContractFor(name)) :
          name \in { "damage_log", "unit_events", "unit_positions" } }

\* the streams of a call with two streams: one row each, the second a
\* probe without nulls
SecondStreams(probes) ==
  { s \in probes :
      /\ Len(s.df.rows) = 1
      /\ total_nulls(s.df) = 0
      /\ s.df.rows[1].rec \in EventRows => s.df.rows[1].rec.frame = VInt(30)
      /\ "null_encoding"
           \notin DOMAIN ColumnMeta(s.metadata, "attacker_unit_id") }

FirstStreams(aspects) == { s \in aspects : Len(s.df.rows) = 1 }

\* all_streams is a dict: the names of its streams differ
InputsOf(probes, aspects) ==
  { << s >> : s \in probes \cup aspects }
    \cup { x \in { << a, b >> : a \in FirstStreams(aspects),
                                b \in SecondStreams(probes) } :
             x[1].name # x[2].name }

WriteInputs ==
  InputsOf(EventStreams \cup TextStreams \cup FlagStreams, AspectStreams)

\* the unit definitions: None, no rows, rows, rows without the key column
DefsRows ==
  << [unit_def_id |-> VInt(12), unit_name |-> VStr("armpw"),
      translated_human_name |-> VStr("Pawn")] >>

DefsInputs ==
  { NoneTable,
    SomeTable(Table(<< "unit_def_id", "unit_name", "translated_human_name" >>,
                    [unit_def_id |-> "Int64", unit_name |-> "Utf8",
                     translated_human_name |-> "Utf8"], << >>)),
    SomeTable(Table(<< "unit_def_id", "unit_name", "translated_human_name" >>,
                    [unit_def_id |-> "Int64", unit_name |-> "Utf8",
                     translated_human_name |-> "Utf8"], DefsRows)),
    SomeTable(Table(<< "unit_name" >>, [unit_name |-> "Utf8"],
                    << [unit_name |-> VStr("armpw")] >>)) }

GameMetaInputs == { NoneBytes, SomeBytes(<< >>), SomeBytes(<< Byte(123), Byte(125) >>) }

\* the path of the hybrid bundle and of the schema of a bundle directory
BundlePath == "replay.mpk.zst"

SchemaPath == "schema.json"

\* the calls of write(): every input under every strategy, and the hybrid
\* strategy with every kind of static asset over an earlier bundle or none
WriteCall(streams, strat, defs, meta, fs) ==
  [streams |-> streams, strategy |-> strat, defs_df |-> defs,
   game_meta_bytes |-> meta, files |-> fs]

CallsOf(inputs) ==
  { WriteCall(streams, strat, NoneTable, NoneBytes, NoFiles) :
      streams \in inputs, strat \in Strategies }
    \cup { WriteCall(streams, Hybrid, defs, meta, fs) :
             streams \in { x \in inputs :
                             /\ Len(x) = 1
                             /\ x[1].name = "unit_names"
                             /\ Len(x[1].df.rows) <= 1 },
             defs \in DefsInputs, meta \in GameMetaInputs,
             fs \in { NoFiles,
                      (BundlePath :> File("previous", "", "", "all")) } }

WriteCalls == CallsOf(WriteInputs)

\* write() is entered
InitWrite ==
  /\ \E call \in WriteCalls :
       /\ all_streams = call.streams
       /\ strategy = call.strategy
       /\ defs_df = call.defs_df
       /\ game_meta_bytes = call.game_meta_bytes
       /\ files = call.files
  /\ stream_index = 0
  /\ streams_schema = NoSchema
  /\ data_payloads = NoPayloads
  /\ static_asset_keys = << >>
  /\ pc = "build"
  /\ error = ""
  /\ log = << >>
  /\ aspect_name = ""
  /\ raw_bytes = << >>
  /\ skip_on_error = FALSE
  /\ i = 0
  /\ raw_models = << >>
  /\ j = 0
  /\ clean_models = << >>
  /\ dataframe = NoDataFrame
  /\ exit_code = -1
  /\ steps = << >>
  /\ df = NoDataFrame
  /\ contract = NoContract
  /\ col_index = 0
  /\ output_df = NoDataFrame
  /\ output_metadata = NoMetadata
  /\ round_mode = "half_to_even"
  /\ RunIdle
  /\ ExtraIdle

\* the variables the output strategies leave alone
qvars ==
  << aspect_name, raw_bytes, skip_on_error, i, raw_models, j, clean_models,
     dataframe, exit_code, steps, cvars, strategy, all_streams, defs_df,
     game_meta_bytes, rvars, xvars >>

CurrentStream == all_streams[stream_index + 1]

\* the body of the loop of the executing strategy on the current stream
Outcome ==
  CASE strategy = Hybrid -> hybrid_build_stream(CurrentStream)
    [] strategy = RowMajorBundle -> row_major_bundle_stream(CurrentStream)
    [] OTHER -> columnar_bundle_stream(CurrentStream)

\* the path a blob of a bundle directory is written to
BlobPath(stream_name, key) ==
  IF strategy = RowMajorBundle THEN key ELSE blob_filename(stream_name, key)

\* open(path, "wb") and write, for each blob in the order produced
WriteBlobs(fs, stream_name, keys) ==
  LET paths == { BlobPath(stream_name, keys[p]) : p \in 1..Len(keys) }
      last(path) == CHOOSE p \in 1..Len(keys) :
                      /\ BlobPath(stream_name, keys[p]) = path
                      /\ \A q \in 1..Len(keys) :
                           BlobPath(stream_name, keys[q]) = path => q <= p
  IN [path \in (DOMAIN fs) \cup paths |->
        IF path \in paths
        THEN File("blob", stream_name, keys[last(path)], "all")
        ELSE fs[path]]

InLoop ==
  /\ pc = "build"
  /\ stream_index < Len(all_streams)

\* continue: an empty stream, or a layout the strategy leaves out
StreamSkipped ==
  /\ InLoop
  /\ Outcome.status = "skip"
  /\ stream_index' = stream_index + 1
  /\ UNCHANGED << streams_schema, data_payloads, static_asset_keys, files,
                  pc, error, log, qvars >>

\* except TypeError: a warning, the stream is left out
StreamWarned ==
  /\ InLoop
  /\ Outcome.status = "warn"
  /\ log' = Append(log, Warning("generate_output", stream_index, "TypeError"))
  /\ stream_index' = stream_index + 1
  /\ UNCHANGED << streams_schema, data_payloads, static_asset_keys, files,
                  pc, error, qvars >>

\* the stream is encoded: its descriptor and its blobs are kept or written
StreamEncoded ==
  /\ InLoop
  /\ Outcome.status = "ok"
  /\ streams_schema' = (CurrentStream.name :> Outcome.descriptor)
                         @@ streams_schema
  /\ IF strategy = Hybrid
     THEN /\ data_payloads' = (CurrentStream.name :> Outcome.blobs)
                                @@ data_payloads
          /\ UNCHANGED files
     ELSE /\ files' = WriteBlobs(files, CurrentStream.name, Outcome.keys)
          /\ UNCHANGED data_payloads
  /\ stream_index' = stream_index + 1
  /\ UNCHANGED << static_asset_keys, pc, error, log, qvars >>

\* variant: an exception of the loop body is logged and the stream left out
StreamRaiseSkips ==
  /\ InLoop
  /\ Outcome.status = "error"
  /\ log' = Append(log, Warning("generate_output", stream_index, Outcome.error))
  /\ stream_index' = stream_index + 1
  /\ UNCHANGED << streams_schema, data_payloads, static_asset_keys, files,
                  pc, error, qvars >>

\* any other exception leaves _execute_write; write() wraps it
StreamRaise ==
  /\ InLoop
  /\ Outcome.status = "error"
  /\ error' = "OutputGenerationError"
  /\ pc' = "output_failed"
  /\ files' = IF strategy = ColumnarBundle
              THEN WriteBlobs(files, CurrentStream.name, Outcome.keys)
              ELSE files
  /\ UNCHANGED << stream_index, streams_schema, data_payloads,
                  static_asset_keys, log, qvars >>

\* the loop is over
BuildEnd ==
  /\ pc = "build"
  /\ stream_index = Len(all_streams)
  /\ pc' = IF strategy = Hybrid THEN "static" ELSE "schema_json"
  /\ UNCHANGED << stream_index, streams_schema, data_payloads,
                  static_asset_keys, files, error, log, qvars >>

\* if game_meta_bytes:
HasGameMeta == ~game_meta_bytes.is_none /\ game_meta_bytes.bytes # << >>

\* if defs_df is not None and not defs_df.is_empty():
HasDefsRows == ~defs_df.is_none /\ defs_df.df.rows # << >>

\* row[key_col] / row[col] raises KeyError
DefsKeyError ==
  \E c \in { defs_contract.key_column }
             \cup { defs_contract.value_columns[p] :
                      p \in 1..Len(defs_contract.value_columns) } :
    ~HasColumn(defs_df.df, c)

\* msgpack.packb(defs_map): bytes the model does not spell out
DefsMapBytes ==
  [p \in 1..Len(defs_df.df.rows) |->
     PartByte(defs_df.df.rows[p].rec[defs_contract.key_column], p)]

\* static_asset_keys of _execute_write
static_keys(has_game_meta, defs_given, defs_built) ==
  (IF has_game_meta THEN << "game_meta" >> ELSE << >>)
    \o (IF defs_given THEN << "defs_map" >> ELSE << >>)

\* hybrid: the static assets are attached and listed
StaticAssets ==
  /\ pc = "static"
  /\ ~(HasDefsRows /\ defs_contract.transform = "to_lookup_map"
         /\ DefsKeyError)
  /\ LET defs_built == HasDefsRows /\ defs_contract.transform = "to_lookup_map"
         with_meta == IF HasGameMeta
                      THEN ("game_meta" :> ("default" :> game_meta_bytes.bytes))
                             @@ data_payloads
                      ELSE data_payloads
     IN /\ data_payloads' =
             IF defs_built
             THEN ("defs_map" :> ("default" :> DefsMapBytes)) @@ with_meta
             ELSE with_meta
        /\ static_asset_keys' =
             static_keys(HasGameMeta, ~defs_df.is_none, defs_built)
  /\ pc' = "open"
  /\ UNCHANGED << stream_index, streams_schema, files, error, log, qvars >>

\* hybrid: a column of the defs contract is not in defs_df
StaticAssetsRaise ==
  /\ pc = "static"
  /\ HasDefsRows /\ defs_contract.transform = "to_lookup_map" /\ DefsKeyError
  /\ data_payloads' =
       IF HasGameMeta
       THEN ("game_meta" :> ("default" :> game_meta_bytes.bytes))
              @@ data_payloads
       ELSE data_payloads
  /\ error' = "OutputGenerationError"
  /\ pc' = "output_failed"
  /\ UNCHANGED << stream_index, streams_schema, static_asset_keys, files,
                  log, qvars >>

\* variant: the bundle is written to a temporary file first
OpenOutputTemporary ==
  /\ pc = "open"
  /\ files' = (BundlePath \o ".tmp" :> File("bundle", "", "", "none")) @@ files
  /\ pc' = "write_file"
  /\ UNCHANGED << stream_index, streams_schema, data_payloads,
                  static_asset_keys, error, log, qvars >>

\* open(output_filepath, "wb"): the file is created or truncated
OpenOutput ==
  /\ pc = "open"
  /\ files' = (BundlePath :> File("bundle", "", "", "none")) @@ files
  /\ pc' = "write_file"
  /\ UNCHANGED << stream_index, streams_schema, data_payloads,
                  static_asset_keys, error, log, qvars >>

\* f.write(compressed_data) and the file is closed
WriteOutput ==
  /\ pc = "write_file"
  /\ files' = (BundlePath :> File("bundle", "", "", "all")) @@ files
  /\ pc' = "output_done"
  /\ UNCHANGED << stream_index, streams_schema, data_payloads,
                  static_asset_keys, error, log, qvars >>

\* f.write raises (the disk is full, say) after none or some of the bytes
WriteOutputFails ==
  /\ pc = "write_file"
  /\ \E part \in { "none", "some" } :
       files' = (BundlePath :> File("bundle", "", "", part)) @@ files
  /\ error' = "OutputGenerationError"
  /\ pc' = "output_failed"
  /\ UNCHANGED << stream_index, streams_schema, data_payloads,
                  static_asset_keys, log, qvars >>

\* a bundle directory: schema.json is written last
WriteSchemaJson ==
  /\ pc = "schema_json"
  /\ files' = (SchemaPath :> File("schema", "", "", "all")) @@ files
  /\ pc' = "output_done"
  /\ UNCHANGED << stream_index, streams_schema, data_payloads,
                  static_asset_keys, error, log, qvars >>

\* the process is interrupted while _execute_write runs
Interrupt ==
  /\ pc \in { "build", "static", "open", "write_file", "schema_json" }
  /\ pc' = "killed"
  /\ UNCHANGED << stream_index, streams_schema, data_payloads,
                  static_asset_keys, files, error, log, qvars >>

NextWrite ==
  \/ StreamSkipped
  \/ StreamWarned
  \/ StreamEncoded
  \/ StreamRaise
  \/ BuildEnd
  \/ StaticAssets
  \/ StaticAssetsRaise
  \/ OpenOutput
  \/ WriteOutput
  \/ WriteOutputFails
  \/ WriteSchemaJson
  \/ Interrupt

SpecWrite == InitWrite /\ [][NextWrite]_vars

\* ------------------------------------------------ claims on the encoders
\* the columns of contract c whose rule declares a null_encoding
SentinelColumns(c) ==
  { c.columns[p].col : p \in { q \in 1..Len(c.columns) :
                                 c.columns[q].has_null_encoding } }

\* the columns of a table that hold a null
NullColumns(table) ==
  { table.columns[q] : q \in { x \in 1..Len(table.columns) :
      \E p \in 1..Len(table.rows) :
        table.rows[p].rec[table.columns[x]].k = "none" } }

\* the first stream is damage_log as its contract leaves it, with nulls, all
\* of them in columns whose rule declares a null_encoding, and the columnar
\* path of the strategy is through with it
DamageLogNullsEncoded ==
  /\ strategy \in { Hybrid, ColumnarBundle }
  /\ all_streams # << >>
  /\ all_streams[1].name = "damage_log"
  /\ NullColumns(all_streams[1].df) # {}
  /\ NullColumns(all_streams[1].df) \subseteq SentinelColumns(damage_log_contract)
  /\ stream_index >= 1 \/ pc = "output_failed"

\* C11: a damage_log stream whose nulls sit in columns with a per-rule
\* null_encoding passes the columnar path of the hybrid and of the columnar
\* bundle strategy: no OutputGenerationError, the stream is emitted
C11_RuleSentinelReachesEncoder ==
  DamageLogNullsEncoded =>
    /\ ~(stream_index = 0 /\ pc = "output_failed")
    /\ "damage_log" \in DOMAIN streams_schema

\* the bytes of row p (from 1) in a blob of items of width w
Slot(blob, p, w) == SubSeq(blob, (p - 1) * w + 1, p * w)

\* the first stream is columnar, all its columns are fixed-width primitives,
\* and the hybrid strategy is through with it
PrimitiveColumnarDone ==
  /\ strategy = Hybrid
  /\ all_streams # << >>
  /\ all_streams[1].df.rows # << >>
  /\ layout_of(all_streams[1].metadata) = "columnar"
  /\ \A q \in 1..Len(all_streams[1].df.columns) :
       InNumpyMap(all_streams[1].df.dtypes[all_streams[1].df.columns[q]])
  /\ stream_index >= 1 \/ pc = "output_failed"

\* the strategy failed on the first stream
FirstStreamFailed == stream_index = 0 /\ pc = "output_failed"

\* the sentinel the contract metadata gives column c of stream s: the
\* column's own when its entry has one, else the table's
ExpectedSentinel(s, c) ==
  IF c \in DOMAIN s.metadata.columns
     /\ "null_encoding" \in DOMAIN s.metadata.columns[c]
  THEN [present |-> TRUE, value |-> s.metadata.columns[c].null_encoding]
  ELSE [present |-> s.metadata.table.has_null_encoding,
        value |-> s.metadata.table.null_encoding]

\* what the blob of column c must hold for the cell v
ExpectedItem(s, c, v) ==
  LET dtype == s.df.dtypes[c]
      w == sizeof(dtype)
  IN IF v.k # "none" THEN ItemBytes(v, dtype)
     ELSE IF ~ExpectedSentinel(s, c).present
     THEN [x \in 1..w |-> PartByte(NaN, x)]
     ELSE IF dtype \in FloatDtypes
     THEN [x \in 1..w |-> PartByte(VFloat(ExpectedSentinel(s, c).value, 1), x)]
     ELSE LittleEndian(ExpectedSentinel(s, c).value, w)

\* a column with nulls that is not a float column and has no sentinel
Unfillable(s, c) ==
  /\ c \in NullColumns(s.df)
  /\ s.df.dtypes[c] \notin FloatDtypes
  /\ ~ExpectedSentinel(s, c).present

\* C12: _fill_nulls_per_contract on the columns of a columnar stream: the
\* stream fails with OutputGenerationError exactly when a non-float column
\* has nulls and neither the column nor the table gives a null_encoding;
\* otherwise every null is encoded as the column's sentinel, or the table's
\* when the column has none, a float column without sentinel keeps its nulls
\* (NaN in the blob), and every other cell is encoded as it is
C12_FillNullsPerContract ==
  PrimitiveColumnarDone =>
    LET s == all_streams[1]
        cols == { s.df.columns[q] : q \in 1..Len(s.df.columns) }
    IN IF \E c \in cols : Unfillable(s, c)
       THEN /\ FirstStreamFailed
            /\ error = "OutputGenerationError"
            /\ s.name \notin DOMAIN data_payloads
       ELSE /\ ~FirstStreamFailed
            /\ s.name \in DOMAIN data_payloads
            /\ \A c \in cols :
                 /\ (c \o "_bin") \in DOMAIN data_payloads[s.name]
                 /\ \A p \in 1..Len(s.df.rows) :
                      Slot(data_payloads[s.name][c \o "_bin"], p,
                           sizeof(s.df.dtypes[c]))
                        = ExpectedItem(s, c, s.df.rows[p].rec[c])

\* a stream whose column and table both give a sentinel was encoded with a
\* null in that column, and another stream failed for want of a sentinel
C12_Witness ==
  /\ PrimitiveColumnarDone
  /\ pc = "build"
  /\ "attacker_unit_id" \in NullColumns(all_streams[1].df)
  /\ all_streams[1].metadata.table.has_null_encoding
  /\ "null_encoding" \in DOMAIN ColumnMeta(all_streams[1].metadata,
                                           "attacker_unit_id")
  /\ all_streams[1].df.dtypes["attacker_unit_id"] = "Int32"
  /\ Slot(data_payloads["unit_events"]["attacker_unit_id_bin"],
          Len(all_streams[1].df.rows), 4)
       = << Byte(255), Byte(255), Byte(255), Byte(255) >>

\* the uint32 at position p (from 1) of a blob of little-endian uint32
U32At(blob, p) ==
  blob[4 * p - 3].b + 256 * blob[4 * p - 2].b + 65536 * blob[4 * p - 1].b
    + 16777216 * blob[4 * p].b

\* the offsets array an offsets blob holds
DecodeOffsets(blob) == [p \in 1..(Len(blob) \div 4) |-> U32At(blob, p)]

\* the first stream is columnar and the hybrid strategy has emitted it
ColumnarEmitted ==
  /\ strategy = Hybrid
  /\ stream_index >= 1
  /\ all_streams[1].df.rows # << >>
  /\ layout_of(all_streams[1].metadata) = "columnar"
  /\ all_streams[1].name \in DOMAIN data_payloads

\* offsets has num_rows + 1 entries, starts at 0 and never decreases
WellFormedOffsets(offs, num_rows) ==
  /\ Len(offs) = num_rows + 1
  /\ offs[1] = 0
  /\ \A p \in 1..num_rows : offs[p] <= offs[p + 1]

\* the blobs of column c of stream s, given the unit the offsets count in:
\* unit(c) bytes of data per offset step
ColumnBlobsSized(s, blobs, c, unit) ==
  LET dtype == s.df.dtypes[c]
      num_rows == Len(s.df.rows)
  IN IF InNumpyMap(dtype)
     THEN Len(blobs[c \o "_bin"]) = num_rows * sizeof(dtype)
     ELSE IF dtype = "Utf8" \/ ListInner(dtype) # ""
     THEN /\ Len(blobs[c \o "_offs"]) = 4 * (num_rows + 1)
          /\ WellFormedOffsets(DecodeOffsets(blobs[c \o "_offs"]), num_rows)
          /\ Len(blobs[c \o "_data"])
               = unit[c] * DecodeOffsets(blobs[c \o "_offs"])[num_rows + 1]
     ELSE TRUE

\* the statement as the specification has it: offsets[-1] = len(data) for
\* text and list columns alike
C13_OffsetsCountBytes ==
  ColumnarEmitted =>
    LET s == all_streams[1]
    IN \A q \in 1..Len(s.df.columns) :
         ColumnBlobsSized(s, data_payloads[s.name], s.df.columns[q],
                          [c \in DOMAIN s.df.dtypes |-> 1])

\* C13: in every columnar stream emitted, a fixed-width primitive column's
\* blob has num_rows * sizeof(dtype) bytes; a text or list column's offsets
\* array has num_rows + 1 entries, starts at 0 and never decreases; the
\* offsets of a text column count bytes (offsets[-1] = len(data)), those of
\* a list column count elements (len(data) = offsets[-1] * sizeof(inner))
C13_BlobSizes ==
  ColumnarEmitted =>
    LET s == all_streams[1]
    IN \A q \in 1..Len(s.df.columns) :
         ColumnBlobsSized(s, data_payloads[s.name], s.df.columns[q],
                          [c \in DOMAIN s.df.dtypes |->
                             IF ListInner(s.df.dtypes[c]) # ""
                             THEN sizeof(ListInner(s.df.dtypes[c])) ELSE 1])

\* a stream with a two-byte text, a list of two Int16 and a list of one
\* Float32 was emitted
C13_Witness ==
  /\ ColumnarEmitted
  /\ all_streams[1].name = "unit_names"
  /\ Len(all_streams[1].df.rows) = 2
  /\ all_streams[1].df.rows[1].rec.name = VStr("u+00e9")
  /\ all_streams[1].df.rows[2].rec.path = VList(<< VInt(1), VInt(2) >>)
  /\ DecodeOffsets(data_payloads["unit_names"]["name_offs"]) = << 0, 2, 4 >>
  /\ DecodeOffsets(data_payloads["unit_names"]["path_offs"]) = << 0, 0, 2 >>
  /\ Len(data_payloads["unit_names"]["path_data"]) = 4
  /\ DecodeOffsets(data_payloads["unit_names"]["weights_offs"]) = << 0, 2, 3 >>
  /\ Len(data_payloads["unit_names"]["weights_data"]) = 12

\* the bytes the columns before position q take in a packed row
RECURSIVE WidthBefore(_, _)
WidthBefore(table, q) ==
  IF q <= 1 THEN 0
  ELSE WidthBefore(table, q - 1) + sizeof(table.dtypes[table.columns[q - 1]])

\* the first stream is row-major-mixed and the hybrid strategy has emitted it
RowMajorEmitted ==
  /\ strategy = Hybrid
  /\ stream_index >= 1
  /\ all_streams[1].name \in DOMAIN streams_schema
  /\ streams_schema[all_streams[1].name].layout = "row-major-mixed"

\* what the slot of a packed row must hold for the cell v of a column of
\* dtype: the cell, or the table's sentinel in place of a null
ExpectedPacked(options, dtype, v) ==
  IF v.k # "none" THEN ItemBytes(v, dtype)
  ELSE IF dtype \in FloatDtypes
  THEN [x \in 1..sizeof(dtype) |-> PartByte(VFloat(options.null_encoding, 1), x)]
  ELSE LittleEndian(options.null_encoding, sizeof(dtype))

\* C14: a row-major-mixed stream emitted by the hybrid strategy: the blob
\* has num_rows * row_byte_stride bytes, the stride is the sum of the widths
\* of the columns, each cell sits at its column's offset in its row, and a
\* null is packed as the table's null_encoding, which is then declared
C14_RowMajorPacking ==
  RowMajorEmitted =>
    LET s == all_streams[1]
        desc == streams_schema[s.name]
        blob == data_payloads[s.name]["default"]
        ncols == Len(s.df.columns)
    IN /\ desc.num_rows = Len(s.df.rows)
       /\ desc.row_byte_stride = WidthBefore(s.df, ncols + 1)
       /\ Len(blob) = desc.num_rows * desc.row_byte_stride
       /\ desc.byte_size = Len(blob)
       /\ total_nulls(s.df) > 0 => s.metadata.table.has_null_encoding
       /\ \A p \in 1..Len(s.df.rows), q \in 1..ncols :
            SubSeq(blob,
                   (p - 1) * desc.row_byte_stride + WidthBefore(s.df, q) + 1,
                   (p - 1) * desc.row_byte_stride + WidthBefore(s.df, q + 1))
              = ExpectedPacked(s.metadata.table, s.df.dtypes[s.df.columns[q]],
                               s.df.rows[p].rec[s.df.columns[q]])

\* S3: three UInt32 columns, null_encoding 0, a null attacker_unit_id: the
\* stride is 12 and the slot holds four zero bytes
C14_Witness ==
  /\ RowMajorEmitted
  /\ Len(all_streams[1].df.rows) = 1
  /\ all_streams[1].df.rows[1].rec.attacker_unit_id = VNone
  /\ all_streams[1].df.dtypes["attacker_unit_id"] = "UInt32"
  /\ all_streams[1].metadata.table.null_encoding = 0
  /\ streams_schema["unit_events"].row_byte_stride = 12
  /\ SubSeq(data_payloads["unit_events"]["default"], 9, 12)
       = << Byte(0), Byte(0), Byte(0), Byte(0) >>

\* the first stream is a non-empty row-major-mixed stream with a null, the
\* strategy packs such streams and is through with it
RowMajorNullsDone ==
  /\ strategy \in { Hybrid, RowMajorBundle }
  /\ all_streams # << >>
  /\ all_streams[1].df.rows # << >>
  /\ all_streams[1].metadata.table.layout = "row-major-mixed"
  /\ total_nulls(all_streams[1].df) > 0
  /\ stream_index >= 1 \/ pc = "output_failed"

\* every column of the table has a struct format character
Packable(table) ==
  \A q \in 1..Len(table.columns) :
    table.dtypes[table.columns[q]] \in StructDtypes

\* C15: a row-major-mixed stream with a null and without
\* table_options.null_encoding makes write() of the hybrid and of the
\* row-major bundle strategy fail with OutputGenerationError, it is not
\* skipped; with a null_encoding, 0 included, the stream is packed
C15_MissingNullEncodingFails ==
  RowMajorNullsDone =>
    IF ~all_streams[1].metadata.table.has_null_encoding
    THEN /\ FirstStreamFailed
         /\ error = "OutputGenerationError"
         /\ all_streams[1].name \notin DOMAIN streams_schema
         /\ log = << >>
    ELSE Packable(all_streams[1].df) =>
           /\ ~FirstStreamFailed
           /\ all_streams[1].name \in DOMAIN streams_schema

\* the row-major bundle strategy failed on a stream with a null and no
\* null_encoding
C15_Witness ==
  /\ RowMajorNullsDone
  /\ strategy = RowMajorBundle
  /\ ~all_streams[1].metadata.table.has_null_encoding
  /\ FirstStreamFailed
  /\ error = "OutputGenerationError"
  /\ files = NoFiles

\* the hybrid strategy has assembled the master object
MasterAssembled ==
  /\ strategy = Hybrid
  /\ pc \in { "open", "write_file", "output_done" }

\* name is listed in schema.static_assets
Listed(name) ==
  \E p \in 1..Len(static_asset_keys) : static_asset_keys[p] = name

\* a stream the hybrid encoder is to pack row by row although a column of
\* it has no struct format character
Unpackable(s) ==
  /\ s.df.rows # << >>
  /\ layout_of(s.metadata) = "row-major-mixed"
  /\ ~Packable(s.df)

\* the stream at position p of all_streams was left out with a warning
LeftOutWithWarning(p) ==
  /\ all_streams[p].name \notin DOMAIN streams_schema
  /\ all_streams[p].name \notin DOMAIN data_payloads
  /\ \E w \in 1..Len(log) :
       log[w] = Warning("generate_output", p - 1, "TypeError")

\* the streams the loop has been through are in the schema and in the data
\* exactly as the encoder makes them of the stream alone
OthersAsAlone ==
  \A p \in 1..stream_index :
    LET alone == hybrid_build_stream(all_streams[p])
    IN IF alone.status = "ok"
       THEN /\ all_streams[p].name \in DOMAIN streams_schema
            /\ streams_schema[all_streams[p].name] = alone.descriptor
            /\ data_payloads[all_streams[p].name] = alone.blobs
       ELSE all_streams[p].name \notin DOMAIN streams_schema

\* C29, as stated: in the hybrid encoder a row-major-mixed stream with a
\* column that is not one of the ten fixed-width numeric dtypes is skipped
\* with a warning: no entry in schema.streams and in data, every other
\* stream emitted as if it were absent, and no error from write()
C29_UnsupportedDtypeSkipped ==
  strategy = Hybrid =>
    /\ \A p \in 1..stream_index :
         Unpackable(all_streams[p]) => LeftOutWithWarning(p)
    /\ (pc = "output_failed" /\ stream_index < Len(all_streams)) =>
         ~Unpackable(CurrentStream)
    /\ OthersAsAlone

\* the null check of _prepare_df_for_row_major_packing lets the stream by
Prepared(s) ==
  total_nulls(s.df) = 0 \/ s.metadata.table.has_null_encoding

\* C29, amended: such a stream is skipped with a warning, with no entry in
\* schema.streams and in data and the other streams emitted as if it were
\* absent, when it holds no null or its contract declares a table
\* null_encoding; when it holds a null and no null_encoding is declared,
\* write() fails with OutputGenerationError on it
C29_UnsupportedDtypeSkippedIfPrepared ==
  strategy = Hybrid =>
    /\ \A p \in 1..stream_index :
         Unpackable(all_streams[p]) =>
           /\ Prepared(all_streams[p])
           /\ LeftOutWithWarning(p)
    /\ (pc = "output_failed" /\ stream_index < Len(all_streams)
          /\ Unpackable(CurrentStream)) =>
         /\ ~Prepared(CurrentStream)
         /\ error = "OutputGenerationError"
    /\ (pc = "build" /\ stream_index < Len(all_streams)
          /\ Unpackable(CurrentStream) /\ Prepared(CurrentStream)) =>
         ENABLED StreamWarned
    /\ OthersAsAlone

\* a hybrid write of two streams, the second left out for its dtype while
\* the first is in the schema
C29_Witness ==
  /\ strategy = Hybrid
  /\ Len(all_streams) = 2
  /\ stream_index = 2
  /\ Unpackable(all_streams[2])
  /\ LeftOutWithWarning(2)
  /\ all_streams[1].name \in DOMAIN streams_schema

\* C16: in the master object of the hybrid strategy a static asset is
\* listed in schema.static_assets exactly when data holds its blob under
\* the key default
C16_StaticAssetsMatchData ==
  MasterAssembled =>
    \A name \in { "game_meta", "defs_map" } :
      Listed(name) <=>
        /\ name \in DOMAIN data_payloads
        /\ DOMAIN data_payloads[name] = { "default" }

\* the columnar bundle strategy has written every stream and schema.json
ColumnarBundleWritten ==
  /\ strategy = ColumnarBundle
  /\ pc = "output_done"

\* the blob keys of an entry of a stream descriptor
EntryKeys(entry) == { entry.data_key, entry.offsets_key } \ { "" }

\* the file at path holds the blob key of stream s
HoldsBlob(path, s, key) ==
  /\ path \in DOMAIN files
  /\ files[path].holds = "blob"
  /\ files[path].stream = s
  /\ files[path].key = key
  /\ files[path].part = "all"

\* C17: after the columnar bundle strategy has written all streams, every
\* emitted blob of every stream is held by a file of its own (none was
\* overwritten by a blob of another stream or column), and the file an
\* entry of schema.json names holds the data blob of that entry
C17_OneFilePerBlob ==
  ColumnarBundleWritten =>
    \A s \in DOMAIN streams_schema :
      \A q \in 1..Len(streams_schema[s].columns) :
        LET entry == streams_schema[s].columns[q]
        IN /\ \A key \in EntryKeys(entry) :
                \E path \in DOMAIN files : HoldsBlob(path, s, key)
           /\ HoldsBlob(entry.file, s, entry.data_key)

\* C18: while and after the hybrid strategy runs, the output path is
\* absent or holds a complete content (that of an earlier run or the new
\* bundle), never an empty or truncated file
C18_AtomicBundleWrite ==
  strategy = Hybrid =>
    \/ BundlePath \notin DOMAIN files
    \/ /\ files[BundlePath].holds \in { "previous", "bundle" }
       /\ files[BundlePath].part = "all"

\* ------------------------------------------- run and the serial pipeline
\* an .mpk file of an input directory: its aspect, whether open/read works,
\* and how many records it holds
InputFile(aspect, readable, records) ==
  [aspect |-> aspect, readable |-> readable, records |-> records]

RunAspects == { "damage_log", "unit_events" }

InputFilePool ==
  { InputFile(a, r, n) :
      a \in RunAspects, r \in BOOLEAN, n \in 0..MaxFileRecords }

\* the cache file a replay can meet: none, one that cannot be opened, one
\* that is no MessagePack, the empty file a failed save leaves, one of
\* another pipeline version, and one this version wrote
CacheFiles ==
  { CacheFile(st, NoCounts) :
      st \in { "absent", "unreadable", "garbage", "empty", "stale" } }
    \cup { CacheFile("valid", [a \in as |-> 0]) :
             as \in (SUBSET RunAspects) \ { {} } }

ErrorEntry(step, row, what) ==
  [level |-> "error", step |-> step, row |-> row, what |-> what]

\* the maps after an edit that left them out of step: an aspect without
\* clean schema, a clean schema without raw one, a derived mapping keyed by
\* an aspect the raw map lacks
BrokenConfigs ==
  { Config(ShippedConfig.raw_keys, ShippedConfig.clean_keys \ { "start_pos" },
           ShippedConfig.dequant_keys, ShippedConfig.enum_keys),
    Config(ShippedConfig.raw_keys, ShippedConfig.clean_keys \cup { "extra" },
           ShippedConfig.dequant_keys, ShippedConfig.enum_keys),
    Config(ShippedConfig.raw_keys, ShippedConfig.clean_keys,
           ShippedConfig.dequant_keys \cup { "extra" },
           ShippedConfig.enum_keys),
    Config(ShippedConfig.raw_keys, ShippedConfig.clean_keys,
           ShippedConfig.dequant_keys,
           ShippedConfig.enum_keys \cup { "extra" }) }

\* the run is one where the cache matters: serial, no dry run, the
\* configuration and the context load
CacheMatters ==
  /\ config = ShippedConfig
  /\ serial
  /\ ~dry_run
  /\ context_ok

\* run on a replay directory
InitRun ==
  /\ config \in { ShippedConfig } \cup BrokenConfigs
  /\ serial \in BOOLEAN
  /\ dry_run \in BOOLEAN
  /\ context_ok \in BOOLEAN
  /\ input_files \in
       SeqsUpTo(InputFilePool,
                IF config = ShippedConfig THEN MaxFiles ELSE 1)
  /\ use_cache \in (IF CacheMatters THEN BOOLEAN ELSE { FALSE })
  /\ force_reprocess \in (IF CacheMatters THEN BOOLEAN ELSE { FALSE })
  /\ cache_file \in
       (IF CacheMatters THEN CacheFiles
        ELSE { CacheFile("absent", NoCounts) })
  /\ cache_writable \in (IF CacheMatters THEN BOOLEAN ELSE { FALSE })
  /\ file_index = 0
  /\ raw_mpk_data = NoCounts
  /\ raw_data_by_aspect = RawData("", NoCounts)
  /\ dataframes = {}
  /\ pc = "validate"
  /\ steps = << "validate" >>
  /\ error = ""
  /\ exit_code = -1
  /\ log = << >>
  /\ aspect_name = ""
  /\ raw_bytes = << >>
  /\ skip_on_error = FALSE
  /\ i = 0
  /\ raw_models = << >>
  /\ j = 0
  /\ clean_models = << >>
  /\ dataframe = NoDataFrame
  /\ df = NoDataFrame
  /\ contract = NoContract
  /\ col_index = 0
  /\ output_df = NoDataFrame
  /\ output_metadata = NoMetadata
  /\ round_mode = "half_to_even"
  /\ StrategyIdle
  /\ AggregateIdle
  /\ ParallelIdle
  /\ OrderIdle
  /\ TagIdle
  /\ EncodeIdle

\* the variables run() leaves alone
uvars ==
  << aspect_name, raw_bytes, skip_on_error, i, raw_models, j, clean_models,
     dataframe, cvars, strategy, all_streams, defs_df, game_meta_bytes,
     stream_index, streams_schema, data_payloads, static_asset_keys,
     input_files, use_cache, force_reprocess, cache_writable, xvars >>

\* the three assertions of validate_configurations
Consistent(cfg) ==
  /\ cfg.raw_keys = cfg.clean_keys
  /\ cfg.dequant_keys \subseteq cfg.raw_keys
  /\ cfg.enum_keys \subseteq cfg.raw_keys

\* Step 0: validate_configurations returns
Validate ==
  /\ pc = "validate"
  /\ Consistent(config)
  /\ Goto("ingest")
  /\ UNCHANGED << error, exit_code, log, file_index, raw_mpk_data, files,
                  cache_file, raw_data_by_aspect, dataframes, uvars >>

\* Step 0: an assert of validate_configurations fails; run() catches the
\* AssertionError with except Exception and exits with code 1
ValidateRaise ==
  /\ pc = "validate"
  /\ ~Consistent(config)
  /\ Fail("AssertionError")
  /\ UNCHANGED << steps, log, file_index, raw_mpk_data, files, cache_file,
                  raw_data_by_aspect, dataframes, uvars >>

CurrentFile == input_files[file_index + 1]

InListing ==
  /\ pc = "ingest"
  /\ file_index < Len(input_files)

\* the warning of load_mpk_files for an aspect name met before
DuplicateWarned(lg) ==
  IF CurrentFile.aspect \in DOMAIN raw_mpk_data
  THEN Append(lg, Warning("ingest", file_index, "duplicate"))
  ELSE lg

\* load_mpk_files: the file is read, a duplicate replaces the earlier one
ReadFile ==
  /\ InListing
  /\ CurrentFile.readable
  /\ raw_mpk_data' = (CurrentFile.aspect :> CurrentFile.records)
                        @@ raw_mpk_data
  /\ log' = DuplicateWarned(log)
  /\ file_index' = file_index + 1
  /\ UNCHANGED << pc, steps, error, exit_code, files, cache_file,
                  raw_data_by_aspect, dataframes, uvars >>

\* load_mpk_files: except IOError, the error is logged and the loop goes on
ReadFileFails ==
  /\ InListing
  /\ ~CurrentFile.readable
  /\ log' = Append(DuplicateWarned(log),
                   ErrorEntry("ingest", file_index, "IOError"))
  /\ file_index' = file_index + 1
  /\ UNCHANGED << pc, steps, error, exit_code, raw_mpk_data, files,
                  cache_file, raw_data_by_aspect, dataframes, uvars >>

\* run: if not raw_mpk_data: raise ParserError
IngestNothing ==
  /\ pc = "ingest"
  /\ file_index = Len(input_files)
  /\ DOMAIN raw_mpk_data = {}
  /\ Fail("ParserError")
  /\ UNCHANGED << steps, log, file_index, raw_mpk_data, files, cache_file,
                  raw_data_by_aspect, dataframes, uvars >>

\* run: the .mpk files are ingested, defs.csv and the context come next
IngestEnd ==
  /\ pc = "ingest"
  /\ file_index = Len(input_files)
  /\ DOMAIN raw_mpk_data # {}
  /\ Goto("context")
  /\ UNCHANGED << error, exit_code, log, file_index, raw_mpk_data, files,
                  cache_file, raw_data_by_aspect, dataframes, uvars >>

\* ingest_defs_csv or build_execution_context raises
ContextRaise ==
  /\ pc = "context"
  /\ ~context_ok
  /\ Fail("FileIngestionError")
  /\ UNCHANGED << steps, log, file_index, raw_mpk_data, files, cache_file,
                  raw_data_by_aspect, dataframes, uvars >>

\* if dry_run: the aspects found are listed, run() returns
DryRunReturn ==
  /\ pc = "context"
  /\ context_ok
  /\ dry_run
  /\ pc' = "exit"
  /\ exit_code' = 0
  /\ UNCHANGED << steps, error, log, file_index, raw_mpk_data, files,
                  cache_file, raw_data_by_aspect, dataframes, uvars >>

\* the context is loaded, the serial or the parallel pipeline starts
ContextLoaded ==
  /\ pc = "context"
  /\ context_ok
  /\ ~dry_run
  /\ Goto(IF serial THEN "cache_load" ELSE "parallel")
  /\ UNCHANGED << error, exit_code, log, file_index, raw_mpk_data, files,
                  cache_file, raw_data_by_aspect, dataframes, uvars >>

\* _run_parallel_pipeline returns a table for every ingested aspect
ParallelPipeline ==
  /\ pc = "parallel"
  /\ raw_data_by_aspect' = RawData("fresh", raw_mpk_data)
  /\ dataframes' = DOMAIN raw_mpk_data
  /\ Goto("merge_context")
  /\ UNCHANGED << error, exit_code, log, file_index, raw_mpk_data, files,
                  cache_file, uvars >>

\* a worker or an inline aspect of _run_parallel_pipeline raises
ParallelPipelineRaise ==
  /\ pc = "parallel"
  /\ Fail("ParserError")
  /\ UNCHANGED << steps, log, file_index, raw_mpk_data, files, cache_file,
                  raw_data_by_aspect, dataframes, uvars >>

CacheTried == use_cache /\ ~force_reprocess

\* _run_serial_pipeline: the cache is not asked, or load_from_cache
\* returns None because the file does not exist
CacheMiss ==
  /\ pc = "cache_load"
  /\ ~CacheTried \/ cache_file.state = "absent"
  /\ Goto("decode_all")
  /\ UNCHANGED << error, exit_code, log, file_index, raw_mpk_data, files,
                  cache_file, raw_data_by_aspect, dataframes, uvars >>

\* what load_from_cache raises on the cache file, "" when it returns; the
\* unpacker raises UnpackException or another exception on an empty file
load_errors(file) ==
  CASE file.state \in { "unreadable", "garbage" } -> { "CacheReadError" }
    [] file.state = "empty" -> { "CacheReadError", "ValueError" }
    [] file.state = "stale" -> { "CacheValidationError" }
    [] OTHER -> { "" }

\* the exceptions the try of _run_serial_pipeline catches
CaughtByPipeline ==
  { "CacheValidationError", "CacheReadError", "CacheWriteError",
    "ParserError" }

\* except (CacheValidationError, ParserError): warn, decode afresh
CacheLoadRecovered ==
  /\ pc = "cache_load"
  /\ CacheTried
  /\ \E exc \in load_errors(cache_file) \cap CaughtByPipeline :
       log' = Append(log, Warning("cache_load", 0, exc))
  /\ Goto("decode_all")
  /\ UNCHANGED << error, exit_code, file_index, raw_mpk_data, files,
                  cache_file, raw_data_by_aspect, dataframes, uvars >>

\* an exception of load_from_cache that is no ParserError reaches run()
CacheLoadRaise ==
  /\ pc = "cache_load"
  /\ CacheTried
  /\ \E exc \in load_errors(cache_file) \ (CaughtByPipeline \cup { "" }) :
       Fail(exc)
  /\ UNCHANGED << steps, log, file_index, raw_mpk_data, files, cache_file,
                  raw_data_by_aspect, dataframes, uvars >>

\* load_from_cache returns the cached records
CacheHit ==
  /\ pc = "cache_load"
  /\ CacheTried
  /\ cache_file.state = "valid"
  /\ raw_data_by_aspect' = RawData("cache", cache_file.counts)
  /\ Goto("transform_all")
  /\ UNCHANGED << error, exit_code, log, file_index, raw_mpk_data, files,
                  cache_file, dataframes, uvars >>

\* Step 2: every ingested aspect is decoded
DecodeAll ==
  /\ pc = "decode_all"
  /\ raw_data_by_aspect' = RawData("fresh", raw_mpk_data)
  /\ Goto(IF use_cache THEN "cache_save" ELSE "transform_all")
  /\ UNCHANGED << error, exit_code, log, file_index, raw_mpk_data, files,
                  cache_file, dataframes, uvars >>

\* msgpack.packb of the payload: item.model_dump is the bound method, not
\* its result, so a payload holding any record cannot be packed
Packable_payload(counts) == \A a \in DOMAIN counts : counts[a] = 0

\* save_to_cache returns: the file is written
SaveToCache ==
  /\ pc = "cache_save"
  /\ cache_writable
  /\ Packable_payload(raw_data_by_aspect.counts)
  /\ cache_file' = CacheFile("valid", raw_data_by_aspect.counts)
  /\ Goto("transform_all")
  /\ UNCHANGED << error, exit_code, log, file_index, raw_mpk_data, files,
                  raw_data_by_aspect, dataframes, uvars >>

\* what a failed save leaves: open(path, "wb") comes before packb
after_failed_save(file, writable) ==
  IF writable THEN CacheFile("empty", NoCounts) ELSE file

\* save_to_cache raises CacheWriteError (IOError or TypeError); the call is
\* in no try of _run_serial_pipeline, run() exits with code 1
SaveToCacheRaise ==
  /\ pc = "cache_save"
  /\ ~cache_writable \/ ~Packable_payload(raw_data_by_aspect.counts)
  /\ cache_file' = after_failed_save(cache_file, cache_writable)
  /\ Fail("CacheWriteError")
  /\ UNCHANGED << steps, log, file_index, raw_mpk_data, files,
                  raw_data_by_aspect, dataframes, uvars >>

\* Steps 4 and 5: a table is built for every aspect of the raw records
TransformAll ==
  /\ pc = "transform_all"
  /\ dataframes' = DOMAIN raw_data_by_aspect.counts
  /\ Goto("merge_context")
  /\ UNCHANGED << error, exit_code, log, file_index, raw_mpk_data, files,
                  cache_file, raw_data_by_aspect, uvars >>

\* dataframes.update(context_dataframes), then Step 6: perform_aggregations
\* catches what its stat functions raise
MergeAndAggregate ==
  /\ pc = "merge_context"
  /\ pc' = "output_transform_all"
  /\ steps' = steps \o << "aggregate_all", "output_transform_all" >>
  /\ UNCHANGED << error, exit_code, log, file_index, raw_mpk_data, files,
                  cache_file, raw_data_by_aspect, dataframes, uvars >>

\* Step 7: apply_output_transformations returns
OutputTransformAll ==
  /\ pc = "output_transform_all"
  /\ Goto("generate_output_all")
  /\ UNCHANGED << error, exit_code, log, file_index, raw_mpk_data, files,
                  cache_file, raw_data_by_aspect, dataframes, uvars >>

\* variant: a failed contract is logged and the encoder runs all the same
OutputTransformAllGoesOn ==
  /\ pc = "output_transform_all"
  /\ error' = "TransformationError"
  /\ Goto("generate_output_all")
  /\ UNCHANGED << exit_code, log, file_index, raw_mpk_data, files,
                  cache_file, raw_data_by_aspect, dataframes, uvars >>

\* Step 7: a contract fails, or something unexpected is raised
OutputTransformAllRaise ==
  /\ pc = "output_transform_all"
  /\ \E exc \in { "TransformationError", "Exception" } : Fail(exc)
  /\ UNCHANGED << steps, log, file_index, raw_mpk_data, files, cache_file,
                  raw_data_by_aspect, dataframes, uvars >>

\* Step 8 succeeds: the output is written, run() returns
OutputAll ==
  /\ pc = "generate_output_all"
  /\ files' = (BundlePath :> File("bundle", "", "", "all")) @@ files
  /\ exit_code' = 0
  /\ pc' = "exit"
  /\ UNCHANGED << steps, error, log, file_index, raw_mpk_data, cache_file,
                  raw_data_by_aspect, dataframes, uvars >>

\* Step 8: the encoder raises, run() exits with code 1
OutputAllRaise ==
  /\ pc = "generate_output_all"
  /\ \E exc \in { "OutputGenerationError", "Exception" } : Fail(exc)
  /\ UNCHANGED << steps, log, file_index, raw_mpk_data, files, cache_file,
                  raw_data_by_aspect, dataframes, uvars >>

NextRun ==
  \/ Validate
  \/ ValidateRaise
  \/ ReadFile
  \/ ReadFileFails
  \/ IngestNothing
  \/ IngestEnd
  \/ ContextRaise
  \/ DryRunReturn
  \/ ContextLoaded
  \/ ParallelPipeline
  \/ ParallelPipelineRaise
  \/ CacheMiss
  \/ CacheLoadRecovered
  \/ CacheLoadRaise
  \/ CacheHit
  \/ DecodeAll
  \/ SaveToCache
  \/ SaveToCacheRaise
  \/ TransformAll
  \/ MergeAndAggregate
  \/ OutputTransformAll
  \/ OutputTransformAllRaise
  \/ OutputAll
  \/ OutputAllRaise

SpecRun == InitRun /\ [][NextRun]_vars

\* ------------------------------------------------------- claims on run
\* the run has ended on exception exc
EndedOn(exc) == pc = "exit" /\ exit_code = 1 /\ error = exc

\* C19: in the serial pipeline no cache error (CacheReadError,
\* CacheValidationError, CacheWriteError) ends the run: after any of them
\* the run goes on to transformation, aggregation and output
C19_CacheErrorsRecoverable ==
  /\ ~EndedOn("CacheReadError")
  /\ ~EndedOn("CacheValidationError")
  /\ ~EndedOn("CacheWriteError")

\* the files of the listing load_mpk_files could not read
FailedReads ==
  { p \in 1..file_index : ~input_files[p].readable }

\* C20: once reading an input aspect file has failed, no table is built and
\* no output is written from the aspects that were read
C20_NoPartialRun ==
  FailedReads # {} /\ raw_data_by_aspect.source = "fresh" =>
    /\ dataframes = {}
    /\ BundlePath \notin DOMAIN files

\* the elements of a sequence
SeqRange(seq) == { seq[p] : p \in 1..Len(seq) }

\* validate_configurations has returned
Validated == Len(steps) > 1

\* C23: validate_configurations succeeds exactly when the raw and the clean
\* map have the same aspects and every aspect of the two derived mappings
\* is in the raw map, and fails with a ConfigInconsistent error otherwise;
\* it succeeds for the shipped schemas, and run() calls it before a file is
\* read
C23_ValidateConfigurations ==
  /\ Validated => Consistent(config)
  /\ pc = "exit" /\ ~Validated =>
       ~Consistent(config) /\ EndedOn("ConfigInconsistent")
  /\ Consistent(ShippedConfig)
  /\ file_index > 0 => Validated

\* the place of a step in the order of run()
StepRank(step) ==
  CASE step = "validate" -> 0
    [] step = "ingest" -> 1
    [] step = "context" -> 2
    [] step = "cache_load" -> 3
    [] step \in { "decode_all", "parallel" } -> 4
    [] step = "cache_save" -> 5
    [] step = "transform_all" -> 6
    [] step = "merge_context" -> 7
    [] step = "aggregate_all" -> 8
    [] step = "output_transform_all" -> 9
    [] step = "generate_output_all" -> 10

\* the steps the encoder comes after
BeforeEncoder ==
  { "validate", "ingest", "merge_context", "aggregate_all",
    "output_transform_all" }

Ingested(name, large, rows, raises) ==
  [name |-> name, large |-> large, rows |-> rows, raises |-> raises]

ParallelAspects == { "damage_log", "unit_events", "start_pos" }

\* raw_mpk_data: a dict, one entry per aspect name
IngestedDicts ==
  { d \in SeqsUpTo({ Ingested(n, l, r, x) :
                       n \in ParallelAspects, l \in BOOLEAN, r \in 0..1,
                       x \in BOOLEAN },
                   MaxAspects) :
      \A a, b \in 1..Len(d) : a # b => d[a].name # d[b].name }

\* _parallel_decode_and_transform followed by
\* create_polars_dataframe_for_aspect, on one aspect alone
PipelineOf(entry) == [aspect |-> entry.name, height |-> entry.rows]

\* {k: v for k, v in raw_mpk_data.items() if ...}: the entries of one side
\* of the threshold, in dict order
aspects_to_parallelize == SelectSeq(ingested, LAMBDA e : e.large)

aspects_to_run_serially == SelectSeq(ingested, LAMBDA e : ~e.large)

\* a future of the executor
Future(state, entry) == [state |-> state, entry |-> entry]

InitParallel ==
  /\ ingested \in IngestedDicts
  /\ tf_futures = << >>
  /\ inline_index = 0
  /\ transformed_data = << >>
  /\ pending_exc = ""
  /\ parallel_result = << >>
  /\ aspect_name = ""
  /\ raw_bytes = << >>
  /\ skip_on_error = FALSE
  /\ pc = "inline"
  /\ i = 0
  /\ raw_models = << >>
  /\ j = 0
  /\ clean_models = << >>
  /\ dataframe = NoDataFrame
  /\ error = ""
  /\ exit_code = -1
  /\ steps = << >>
  /\ log = << >>
  /\ df = NoDataFrame
  /\ contract = NoContract
  /\ col_index = 0
  /\ output_df = NoDataFrame
  /\ output_metadata = NoMetadata
  /\ round_mode = "half_to_even"
  /\ StrategyIdle
  /\ RunIdle
  /\ OptionsIdle
  /\ AggregateIdle
  /\ OrderIdle
  /\ TagIdle
  /\ EncodeIdle

\* the variables _run_parallel_pipeline leaves alone
hvars ==
  << aspect_name, raw_bytes, skip_on_error, i, raw_models, j, clean_models,
     dataframe, exit_code, steps, log, cvars, evars, rvars, nvars, avars,
     ovars, tvars, svars, ingested >>

\* the loop over aspects_to_run_serially: one small aspect is processed in
\* the calling process
InlineNext ==
  /\ pc = "inline"
  /\ inline_index < Len(aspects_to_run_serially)
  /\ LET entry == aspects_to_run_serially[inline_index + 1]
     IN  /\ ~entry.raises
         /\ parallel_result' =
              (entry.name :> PipelineOf(entry)) @@ parallel_result
  /\ inline_index' = inline_index + 1
  /\ UNCHANGED << pc, error, tf_futures, transformed_data, pending_exc,
                  hvars >>

\* a small aspect raises: nothing was submitted yet
InlineRaise ==
  /\ pc = "inline"
  /\ inline_index < Len(aspects_to_run_serially)
  /\ aspects_to_run_serially[inline_index + 1].raises
  /\ error' = "ParserError"
  /\ pc' = "exit"
  /\ UNCHANGED << inline_index, parallel_result, tf_futures,
                  transformed_data, pending_exc, hvars >>

\* executor.submit for every large aspect
Submit ==
  /\ pc = "inline"
  /\ inline_index = Len(aspects_to_run_serially)
  /\ aspects_to_parallelize # << >>
  /\ tf_futures' =
       [n \in { e.name : e \in SeqRange(aspects_to_parallelize) } |->
          Future("running",
                 CHOOSE e \in SeqRange(aspects_to_parallelize) : e.name = n)]
  /\ pc' = "as_completed"
  /\ UNCHANGED << error, inline_index, parallel_result, transformed_data,
                  pending_exc, hvars >>

\* a worker process ends, with its result or its exception
WorkerDone(n) ==
  /\ n \in DOMAIN tf_futures
  /\ tf_futures[n].state = "running"
  /\ tf_futures' =
       [tf_futures EXCEPT ![n].state =
          IF tf_futures[n].entry.raises THEN "raised" ELSE "returned"]
  /\ UNCHANGED << pc, error, inline_index, parallel_result,
                  transformed_data, pending_exc, hvars >>

\* the futures as_completed has still to yield
NotYielded ==
  { n \in DOMAIN tf_futures :
      /\ tf_futures[n].state # "running"
      /\ tf_futures[n].entry.name \notin SeqRange(transformed_data) }

\* as_completed yields a finished future, future.result() returns
Collect(n) ==
  /\ pc = "as_completed"
  /\ n \in NotYielded
  /\ tf_futures[n].state = "returned"
  /\ transformed_data' = Append(transformed_data, tf_futures[n].entry.name)
  /\ UNCHANGED << pc, error, inline_index, parallel_result, tf_futures,
                  pending_exc, hvars >>

\* future.result() raises the exception of the worker: the executor block
\* is left
CollectRaise(n) ==
  /\ pc = "as_completed"
  /\ n \in NotYielded
  /\ tf_futures[n].state = "raised"
  /\ pending_exc' = "ParserError"
  /\ pc' = "shutdown"
  /\ UNCHANGED << error, inline_index, parallel_result, tf_futures,
                  transformed_data, hvars >>

Running == { n \in DOMAIN tf_futures : tf_futures[n].state = "running" }

\* variant: the loop ends with the first future collected
CollectEndFirst ==
  /\ pc = "as_completed"
  /\ transformed_data # << >>
  /\ pc' = "frames"
  /\ UNCHANGED << error, inline_index, parallel_result, tf_futures,
                  transformed_data, pending_exc, hvars >>

\* as_completed is exhausted, ProcessPoolExecutor.__exit__ returns
CollectEnd ==
  /\ pc = "as_completed"
  /\ \A n \in DOMAIN tf_futures : n \in SeqRange(transformed_data)
  /\ pc' = "frames"
  /\ UNCHANGED << error, inline_index, parallel_result, tf_futures,
                  transformed_data, pending_exc, hvars >>

\* ProcessPoolExecutor.__exit__ on an exception: shutdown(wait=True), then
\* the exception goes on to the caller
Shutdown ==
  /\ pc = "shutdown"
  /\ Running = {}
  /\ error' = pending_exc
  /\ pc' = "exit"
  /\ UNCHANGED << inline_index, parallel_result, tf_futures,
                  transformed_data, pending_exc, hvars >>

\* the loop over transformed_data builds the tables; return dataframes
Frames ==
  /\ pc = "frames"
  /\ parallel_result' =
       [n \in SeqRange(transformed_data) |->
          PipelineOf(tf_futures[n].entry)] @@ parallel_result
  /\ pc' = "exit"
  /\ UNCHANGED << error, inline_index, tf_futures, transformed_data,
                  pending_exc, hvars >>

\* if aspects_to_parallelize is empty: return dataframes
ReturnInline ==
  /\ pc = "inline"
  /\ inline_index = Len(aspects_to_run_serially)
  /\ aspects_to_parallelize = << >>
  /\ pc' = "exit"
  /\ UNCHANGED << error, inline_index, parallel_result, tf_futures,
                  transformed_data, pending_exc, hvars >>

NextParallel ==
  \/ InlineNext
  \/ InlineRaise
  \/ Submit
  \/ \E n \in ParallelAspects : WorkerDone(n)
  \/ \E n \in ParallelAspects : Collect(n)
  \/ \E n \in ParallelAspects : CollectRaise(n)
  \/ CollectEnd
  \/ Shutdown
  \/ Frames
  \/ ReturnInline

SpecParallel == InitParallel /\ [][NextParallel]_vars

\* --------------------------------------- claims on _run_parallel_pipeline
\* C25: for every split of the aspects into small and large ones and every
\* completion order of the workers, _run_parallel_pipeline returns only
\* after all submitted workers have finished, the mapping returned holds
\* exactly one table per ingested aspect, the one the pipeline yields on
\* that aspect alone, and the exception of a worker reaches the caller
C25_ParallelPipeline ==
  pc = "exit" =>
    /\ Running = {}
    /\ error = "" <=> \A e \in SeqRange(ingested) : ~e.raises
    /\ error = "" =>
         /\ DOMAIN parallel_result = { e.name : e \in SeqRange(ingested) }
         /\ \A e \in SeqRange(ingested) :
              parallel_result[e.name] = PipelineOf(e)

\* small and large aspects together, the large ones collected in an order
\* that is not the order of submission
C25_Witness ==
  /\ pc = "exit"
  /\ error = ""
  /\ aspects_to_run_serially # << >>
  /\ Len(transformed_data) >= 2
  /\ transformed_data # [p \in 1..Len(transformed_data) |->
                           aspects_to_parallelize[p].name]

\* ------------------------------------------------- perform_aggregations
\* Stat: the fields perform_aggregations reads, with the module name as key
Stat(name, default_enabled) ==
  [name |-> name, default_enabled |-> default_enabled]

\* the registry discovery builds from the stats package: modules in sorted
\* order, each with the default_enabled of its STAT_DEFINITION
TubuinStats ==
  << Stat("army_value_timeline", TRUE),
     Stat("calculate_player_apm_and_focus", TRUE),
     Stat("unit_economic_contribution_binned", TRUE) >>

\* the registry of a stats package that holds a stat left at the default
\* of the dataclass, default_enabled = False
MixedStats ==
  << Stat("army_value_timeline", TRUE),
     Stat("unit_economic_contribution", FALSE) >>

Registries == { TubuinStats, MixedStats }

RegistryNames(reg) == { reg[p].name : p \in 1..Len(reg) }

\* UNAGGREGATED_STREAM_REGISTRY: command_log and one pass-through per
\* aspect of the clean schema map
UNAGGREGATED_STREAM_REGISTRY ==
  { "command_log" } \cup DOMAIN ASPECT_TO_CLEAN_SCHEMA_MAP

\* what a stat or stream function does: it returns a table with rows, an
\* empty table or None, or it raises
Outcomes == { "table", "empty", "none", "raise" }

\* a pass-through returns dataframes_by_aspect.get(name, pl.DataFrame())
StreamOutcomes(name) ==
  IF name = "command_log" THEN Outcomes ELSE { "table", "empty" }

\* variant: every stat of the registry is taken
RECURSIVE all_stats(_)
all_stats(reg) ==
  IF reg = << >> THEN << >>
  ELSE << reg[1].name >> \o all_stats(Tail(reg))

\* [name for name, stat in STATS_REGISTRY.items() if stat.default_enabled]
RECURSIVE default_stats(_)
default_stats(reg) ==
  IF reg = << >> THEN << >>
  ELSE (IF reg[1].default_enabled THEN << reg[1].name >> ELSE << >>)
         \o default_stats(Tail(reg))

\* the names the first loop iterates over
effective_stats(reg, requested) ==
  IF requested = << >> THEN default_stats(reg) ELSE requested

\* the stream requests handed in
StreamRequests ==
  { << >>,
    << "unit_events" >>,
    << "command_log", "mystery_stream" >>,
    << "unit_events", "command_log" >>,
    << "damage_log", "damage_log" >> }

OutcomesFor(names) ==
  { f \in [names -> Outcomes] : \A n \in names : f[n] \in StreamOutcomes(n) }

\* a call perform_aggregations(dataframes_by_aspect, stats, streams)
InitAggregate ==
  /\ stats_registry \in Registries
  /\ stats_to_compute \in
       SeqsUpTo(RegistryNames(stats_registry) \cup { "unknown_stat" },
                MaxRequests)
  /\ unaggregated_streams_to_compute \in StreamRequests
  /\ stat_outcomes \in
       [SeqRange(effective_stats(stats_registry, stats_to_compute))
          \cap RegistryNames(stats_registry) -> Outcomes]
  /\ stream_outcomes \in
       OutcomesFor(SeqRange(unaggregated_streams_to_compute)
                     \cap UNAGGREGATED_STREAM_REGISTRY)
  /\ agg_index = 0
  /\ computed_stats = << >>
  /\ computed_unaggregated_streams = << >>
  /\ invoked = << >>
  /\ pc = "agg_start"
  /\ steps = << >>
  /\ error = ""
  /\ exit_code = -1
  /\ log = << >>
  /\ aspect_name = ""
  /\ raw_bytes = << >>
  /\ skip_on_error = FALSE
  /\ i = 0
  /\ raw_models = << >>
  /\ j = 0
  /\ clean_models = << >>
  /\ dataframe = NoDataFrame
  /\ df = NoDataFrame
  /\ contract = NoContract
  /\ col_index = 0
  /\ output_df = NoDataFrame
  /\ output_metadata = NoMetadata
  /\ round_mode = "half_to_even"
  /\ StrategyIdle
  /\ RunIdle
  /\ OptionsIdle
  /\ ParallelIdle
  /\ OrderIdle
  /\ TagIdle
  /\ EncodeIdle

\* the variables perform_aggregations leaves alone
gvars ==
  << aspect_name, raw_bytes, skip_on_error, i, raw_models, j, clean_models,
     dataframe, exit_code, steps, cvars, evars, rvars, nvars, wvars, ovars,
     tvars, svars, stats_registry,
     unaggregated_streams_to_compute, stat_outcomes, stream_outcomes >>

\* a call of a stat or stream function
Call(kind, name) == [kind |-> kind, name |-> name]

\* d[key] = value on a dict kept as its keys in insertion order
DictKeysSet(keys, key) ==
  IF key \in SeqRange(keys) THEN keys ELSE Append(keys, key)

\* if not stats_to_compute: the default set is taken, with a warning
TakeDefaults ==
  /\ pc = "agg_start"
  /\ stats_to_compute' = effective_stats(stats_registry, stats_to_compute)
  /\ log' = IF stats_to_compute = << >>
            THEN Append(log, Warning("aggregate", 0, "default set"))
            ELSE log
  /\ pc' = "agg_stats"
  /\ UNCHANGED << agg_index, computed_stats, computed_unaggregated_streams,
                  invoked, error, gvars >>

InStats ==
  /\ pc = "agg_stats"
  /\ agg_index < Len(stats_to_compute)

stat_name == stats_to_compute[agg_index + 1]

\* the name is not in STATS_REGISTRY: a warning, nothing is called
StatUnknown ==
  /\ InStats
  /\ stat_name \notin RegistryNames(stats_registry)
  /\ log' = Append(log, Warning("stat", agg_index, "not in STATS_REGISTRY"))
  /\ agg_index' = agg_index + 1
  /\ UNCHANGED << stats_to_compute, computed_stats,
                  computed_unaggregated_streams, invoked, pc, error, gvars >>

StatCalled(outcomes) ==
  /\ InStats
  /\ stat_name \in RegistryNames(stats_registry)
  /\ stat_outcomes[stat_name] \in outcomes
  /\ invoked' = Append(invoked, Call("stat", stat_name))
  /\ agg_index' = agg_index + 1

\* the stat returns a table with rows: it is kept
StatKept ==
  /\ StatCalled({ "table" })
  /\ computed_stats' = DictKeysSet(computed_stats, stat_name)
  /\ UNCHANGED << stats_to_compute, computed_unaggregated_streams, log, pc,
                  error, gvars >>

\* the stat returns None or an empty table: a warning
StatDropped ==
  /\ StatCalled({ "empty", "none" })
  /\ log' = Append(log, Warning("stat", agg_index, "empty or null"))
  /\ UNCHANGED << stats_to_compute, computed_stats,
                  computed_unaggregated_streams, pc, error, gvars >>

\* variant: the exception of a stat function leaves perform_aggregations
StatRaisedPropagates ==
  /\ StatCalled({ "raise" })
  /\ error' = "AggregationError"
  /\ pc' = "agg_failed"
  /\ UNCHANGED << stats_to_compute, computed_stats,
                  computed_unaggregated_streams, log, gvars >>

\* except Exception: the error is logged, the loop goes on
StatRaised ==
  /\ StatCalled({ "raise" })
  /\ log' = Append(log, ErrorEntry("stat", agg_index, "raised"))
  /\ UNCHANGED << stats_to_compute, computed_stats,
                  computed_unaggregated_streams, pc, error, gvars >>

\* the first loop is over
StatsEnd ==
  /\ pc = "agg_stats"
  /\ agg_index = Len(stats_to_compute)
  /\ pc' = "agg_streams"
  /\ agg_index' = 0
  /\ UNCHANGED << stats_to_compute, computed_stats,
                  computed_unaggregated_streams, invoked, log, error, gvars >>

InUnaggregated ==
  /\ pc = "agg_streams"
  /\ agg_index < Len(unaggregated_streams_to_compute)

stream_name == unaggregated_streams_to_compute[agg_index + 1]

\* the name is not in the stream registry: a warning, nothing is called
UnaggUnknown ==
  /\ InUnaggregated
  /\ stream_name \notin UNAGGREGATED_STREAM_REGISTRY
  /\ log' = Append(log, Warning("stream", agg_index, "not in registry"))
  /\ agg_index' = agg_index + 1
  /\ UNCHANGED << stats_to_compute, computed_stats,
                  computed_unaggregated_streams, invoked, pc, error, gvars >>

UnaggCalled(outcomes) ==
  /\ InUnaggregated
  /\ stream_name \in UNAGGREGATED_STREAM_REGISTRY
  /\ stream_outcomes[stream_name] \in outcomes
  /\ invoked' = Append(invoked, Call("stream", stream_name))
  /\ agg_index' = agg_index + 1

\* the stream function returns a table with rows: it is kept
UnaggKept ==
  /\ UnaggCalled({ "table" })
  /\ computed_unaggregated_streams' =
       DictKeysSet(computed_unaggregated_streams, stream_name)
  /\ UNCHANGED << stats_to_compute, computed_stats, log, pc, error, gvars >>

\* the stream function returns None or an empty table: a warning
UnaggDropped ==
  /\ UnaggCalled({ "empty", "none" })
  /\ log' = Append(log, Warning("stream", agg_index, "empty or null"))
  /\ UNCHANGED << stats_to_compute, computed_stats,
                  computed_unaggregated_streams, pc, error, gvars >>

\* except Exception: the error is logged, the loop goes on
UnaggRaised ==
  /\ UnaggCalled({ "raise" })
  /\ log' = Append(log, ErrorEntry("stream", agg_index, "raised"))
  /\ UNCHANGED << stats_to_compute, computed_stats,
                  computed_unaggregated_streams, pc, error, gvars >>

\* return computed_stats, computed_unaggregated_streams
AggregateReturn ==
  /\ pc = "agg_streams"
  /\ agg_index = Len(unaggregated_streams_to_compute)
  /\ pc' = "agg_done"
  /\ UNCHANGED << stats_to_compute, agg_index, computed_stats,
                  computed_unaggregated_streams, invoked, log, error, gvars >>

NextAggregate ==
  \/ TakeDefaults
  \/ StatUnknown
  \/ StatKept
  \/ StatDropped
  \/ StatRaised
  \/ StatsEnd
  \/ UnaggUnknown
  \/ UnaggKept
  \/ UnaggDropped
  \/ UnaggRaised
  \/ AggregateReturn

SpecAggregate == InitAggregate /\ [][NextAggregate]_vars

\* ---------------------------------------- claims on perform_aggregations
AggregateDone == pc = "agg_done"

\* the names of the functions of one kind that were called, in call order
CallNames(kind) ==
  LET OfKind(c) == c.kind = kind
      calls == SelectSeq(invoked, OfKind)
  IN [p \in 1..Len(calls) |-> calls[p].name]

\* the names of a request that are in a registry, in request order
Known(request, names) ==
  LET IsKnown(n) == n \in names
  IN SelectSeq(request, IsKnown)

\* the keys a dict ends with when the names whose function returned a
\* table are inserted in request order
RECURSIVE KeptKeys(_, _, _)
KeptKeys(request, outcomes, keys) ==
  IF request = << >> THEN keys
  ELSE KeptKeys(Tail(request), outcomes,
                IF /\ request[1] \in DOMAIN outcomes
                   /\ outcomes[request[1]] = "table"
                   /\ request[1] \notin SeqRange(keys)
                THEN Append(keys, request[1]) ELSE keys)

\* every call of the request that raises has its error in the log
RaisesLogged(request, outcomes, step) ==
  \A p \in 1..Len(request) :
    (request[p] \in DOMAIN outcomes /\ outcomes[request[p]] = "raise")
      => ErrorEntry(step, p - 1, "raised") \in SeqRange(log)

\* C21: a stat or stream function that raises is logged and left out of
\* the result, as is one that returns None or an empty table; every other
\* requested function is still called, in request order, and no exception
\* leaves perform_aggregations
C21_AggregationErrorsDropStat ==
  /\ pc # "agg_failed"
  /\ AggregateDone =>
       /\ error = ""
       /\ CallNames("stat")
            = Known(stats_to_compute, RegistryNames(stats_registry))
       /\ CallNames("stream")
            = Known(unaggregated_streams_to_compute,
                    UNAGGREGATED_STREAM_REGISTRY)
       /\ computed_stats = KeptKeys(stats_to_compute, stat_outcomes, << >>)
       /\ computed_unaggregated_streams
            = KeptKeys(unaggregated_streams_to_compute, stream_outcomes,
                       << >>)
       /\ RaisesLogged(stats_to_compute, stat_outcomes, "stat")
       /\ RaisesLogged(unaggregated_streams_to_compute, stream_outcomes,
                       "stream")

\* a stat that raises is followed by one that is kept, and a stream
\* function that raises by one that is kept
C21_Witness ==
  /\ AggregateDone
  /\ Len(stats_to_compute) = 2
  /\ stats_to_compute[1] \in DOMAIN stat_outcomes
  /\ stat_outcomes[stats_to_compute[1]] = "raise"
  /\ computed_stats = << stats_to_compute[2] >>
  /\ unaggregated_streams_to_compute = << "unit_events", "command_log" >>
  /\ stream_outcomes["unit_events"] = "table"
  /\ stream_outcomes["command_log"] = "raise"
  /\ computed_unaggregated_streams = << "unit_events" >>

\* the request was empty: the default set was taken
DefaultsTaken ==
  Warning("aggregate", 0, "default set") \in SeqRange(log)

\* how often the stat function of a name was called
TimesCalled(name) ==
  Cardinality({ p \in 1..Len(invoked) : invoked[p] = Call("stat", name) })

Runs == { 1, 2 }

NotRun == << "not run" >>

\* the orderings of a set of names
Orderings(S) ==
  { q \in SeqsUpTo(S, Cardinality(S)) :
      /\ Len(q) = Cardinality(S)
      /\ \A a, b \in 1..Len(q) : a # b => q[a] # q[b] }

\* the --stat and --stream options of the two runs
StatRequests ==
  { << >>,
    << "army_value_timeline" >>,
    << "unit_economic_contribution_binned", "army_value_timeline" >> }

OrderRequests ==
  { << "unit_events", "unit_positions", "start_pos", "team_stats",
       "damage_log" >>,
    << "damage_log", "unit_events" >>,
    << "start_pos", "command_log", "unit_events", "start_pos" >> }

\* two runs of the parallel pipeline on the same files with the same
\* options
InitOrder ==
  /\ ingested \in { d \in IngestedDicts : \A p \in 1..Len(d) : ~d[p].raises }
  /\ stats_registry = TubuinStats
  /\ stats_to_compute \in StatRequests
  /\ unaggregated_streams_to_compute \in OrderRequests
  /\ stat_outcomes \in
       [SeqRange(effective_stats(stats_registry, stats_to_compute)) ->
          IF stats_to_compute = << >> THEN { "table" }
          ELSE { "table", "empty" }]
  /\ stream_outcomes \in
       [{ "command_log" } \cap SeqRange(unaggregated_streams_to_compute) ->
          { "table", "empty" }]
  /\ completion = [r \in Runs |-> NotRun]
  /\ schema_order = [r \in Runs |-> NotRun]
  /\ agg_index = 0
  /\ computed_stats = << >>
  /\ computed_unaggregated_streams = << >>
  /\ invoked = << >>
  /\ tf_futures = << >>
  /\ inline_index = 0
  /\ transformed_data = << >>
  /\ pending_exc = ""
  /\ parallel_result = << >>
  /\ pc = "two_runs"
  /\ steps = << >>
  /\ error = ""
  /\ exit_code = -1
  /\ log = << >>
  /\ aspect_name = ""
  /\ raw_bytes = << >>
  /\ skip_on_error = FALSE
  /\ i = 0
  /\ raw_models = << >>
  /\ j = 0
  /\ clean_models = << >>
  /\ dataframe = NoDataFrame
  /\ df = NoDataFrame
  /\ contract = NoContract
  /\ col_index = 0
  /\ output_df = NoDataFrame
  /\ output_metadata = NoMetadata
  /\ round_mode = "half_to_even"
  /\ StrategyIdle
  /\ RunIdle
  /\ OptionsIdle
  /\ TagIdle
  /\ EncodeIdle

\* the variables the two runs leave alone
kvars ==
  << aspect_name, raw_bytes, skip_on_error, pc, i, raw_models, j,
     clean_models, dataframe, error, exit_code, steps, log, cvars, evars,
     rvars, avars, nvars, wvars, tvars, svars >>

\* _run_parallel_pipeline of run r returns: its workers completed in some
\* order
ParallelReturns(r) ==
  /\ completion[r] = NotRun
  /\ \E order \in
         Orderings({ aspects_to_parallelize[p].name :
                       p \in 1..Len(aspects_to_parallelize) }) :
       completion' = [completion EXCEPT ![r] = order]
  /\ UNCHANGED << schema_order, kvars >>

\* the keys of the dataframes dict _run_parallel_pipeline returns: the
\* small aspects in the order of raw_mpk_data, then the large ones in the
\* order as_completed yielded them
dataframes_keys(order) ==
  [p \in 1..Len(aspects_to_run_serially) |->
     aspects_to_run_serially[p].name] \o order

\* the names whose stat function returns a table with rows
StatTables == { n \in DOMAIN stat_outcomes : stat_outcomes[n] = "table" }

\* the names whose stream function returns a table with rows, given the
\* tables of the run: dataframes_by_aspect.get(stream_name, pl.DataFrame())
StreamTables(keys) ==
  { n \in UNAGGREGATED_STREAM_REGISTRY :
      IF n = "command_log"
      THEN n \in DOMAIN stream_outcomes /\ stream_outcomes[n] = "table"
      ELSE /\ n \in SeqRange(keys)
           /\ \E e \in SeqRange(ingested) : e.name = n /\ e.rows > 0 }

\* a loop of perform_aggregations: for name in request, the result is
\* stored under its name when it is a table with rows
RECURSIVE computed(_, _, _)
computed(request, tables, keys) ==
  IF request = << >> THEN keys
  ELSE computed(Tail(request), tables,
                IF request[1] \in tables
                THEN DictKeysSet(keys, request[1]) ELSE keys)

\* all_streams = transformed_aggregated_data.copy();
\* all_streams.update(transformed_unaggregated_data), on the keys
RECURSIVE dict_update(_, _)
dict_update(keys, other) ==
  IF other = << >> THEN keys
  ELSE dict_update(DictKeysSet(keys, other[1]), Tail(other))

\* variant: the pass-through streams are taken in the order of the tables
RunWritesInTableOrder(r) ==
  /\ completion[r] # NotRun
  /\ schema_order[r] = NotRun
  /\ LET keys == dataframes_keys(completion[r])
         requested ==
           SeqRange(unaggregated_streams_to_compute) \cap StreamTables(keys)
     IN  schema_order' =
           [schema_order EXCEPT ![r] =
              dict_update(
                computed(effective_stats(stats_registry, stats_to_compute),
                         StatTables, << >>),
                computed(keys \o << "command_log" >>, requested, << >>))]
  /\ UNCHANGED << completion, kvars >>

\* Steps 6 to 8 of run r: the aggregations over the requests, the merge of
\* write() and the loop of _build_payloads, which enters each stream of
\* all_streams in streams_schema as it comes
RunWrites(r) ==
  /\ completion[r] # NotRun
  /\ schema_order[r] = NotRun
  /\ LET keys == dataframes_keys(completion[r])
     IN  schema_order' =
           [schema_order EXCEPT ![r] =
              dict_update(
                computed(effective_stats(stats_registry, stats_to_compute),
                         StatTables, << >>),
                computed(unaggregated_streams_to_compute,
                         StreamTables(keys), << >>))]
  /\ UNCHANGED << completion, kvars >>

NextOrder ==
  \/ \E r \in Runs : ParallelReturns(r)
  \/ \E r \in Runs : RunWrites(r)

SpecOrder == InitOrder /\ [][NextOrder]_vars

\* the names of a request whose table has rows in the ingested files,
\* whatever the run
Filled ==
  { n \in UNAGGREGATED_STREAM_REGISTRY :
      IF n = "command_log"
      THEN n \in DOMAIN stream_outcomes /\ stream_outcomes[n] = "table"
      ELSE \E e \in SeqRange(ingested) : e.name = n /\ e.rows > 0 }

\* C26: the streams of the hybrid schema.streams come in the insertion
\* order of the merged stream map, the requested stats in request order and
\* then the requested pass-through streams in request order; two runs over
\* the same inputs and requests give the same order whatever the order
\* their parallel workers completed in
C26_StreamOrderDeterministic ==
  /\ \A r \in Runs :
       schema_order[r] # NotRun =>
         schema_order[r] =
           KeptKeys(effective_stats(stats_registry, stats_to_compute),
                    stat_outcomes, << >>)
           \o KeptKeys(unaggregated_streams_to_compute,
                       [n \in Filled |-> "table"], << >>)
  /\ schema_order[1] # NotRun /\ schema_order[2] # NotRun =>
       schema_order[1] = schema_order[2]

\* two runs whose workers completed in different orders, each with a stat
\* and two pass-through streams of large aspects in its schema
C26_Witness ==
  /\ schema_order[1] # NotRun
  /\ schema_order[2] # NotRun
  /\ completion[1] # completion[2]
  /\ \E a, b \in SeqRange(completion[1]) :
       /\ a # b
       /\ { a, b } \subseteq SeqRange(schema_order[1])
  /\ SeqRange(schema_order[1]) \cap StatTables # {}

\* ------------------------------------------ a dequantize_by tag is added
\* a tag: the aspect, the raw field it is put on, the divisor it declares
Tag(aspect, field, divisor) ==
  [aspect |-> aspect, field |-> field, divisor |-> divisor]

\* the divisors the shipped schemas declare
Divisors == { 10, 1000 }

\* the integer fields of a raw class that carry no tag
Untagged(cls) ==
  { cls[x].name : x \in { y \in 1..Len(cls) :
                            /\ cls[y].type = "int"
                            /\ cls[y].dequantize_by = 0
                            /\ cls[y].enum_clean = "" } }

Tags ==
  { Tag(a, f, d) : a \in DOMAIN ASPECT_TO_RAW_SCHEMA_MAP,
                   f \in UNION { Untagged(ASPECT_TO_RAW_SCHEMA_MAP[x]) :
                                   x \in DOMAIN ASPECT_TO_RAW_SCHEMA_MAP },
                   d \in Divisors }

\* the raw class with Field(json_schema_extra={"dequantize_by": d}) put on
\* one field
with_tag(cls, field, divisor) ==
  [x \in 1..Len(cls) |->
     IF cls[x].name = field
     THEN [cls[x] EXCEPT !.dequantize_by = divisor] ELSE cls[x]]

\* raw_model.model_dump() of a record that holds v in every integer field
RecordOf(cls, v) ==
  [f \in FieldNames(cls) |->
     IF cls[FieldIndex(cls, f)].type = "int" THEN VInt(v) ELSE VStr("a")]

TagValues == 1..MaxTagValue

InitTag ==
  /\ tag \in { t \in Tags :
                t.field \in Untagged(ASPECT_TO_RAW_SCHEMA_MAP[t.aspect]) }
  /\ tag_record \in
       { RecordOf(ASPECT_TO_RAW_SCHEMA_MAP[tag.aspect], v * 1000) :
           v \in TagValues }
  /\ dequantized = << >>
  /\ pc = "tag"
  /\ steps = << >>
  /\ error = ""
  /\ exit_code = -1
  /\ log = << >>
  /\ aspect_name = ""
  /\ raw_bytes = << >>
  /\ skip_on_error = FALSE
  /\ i = 0
  /\ raw_models = << >>
  /\ j = 0
  /\ clean_models = << >>
  /\ dataframe = NoDataFrame
  /\ df = NoDataFrame
  /\ contract = NoContract
  /\ col_index = 0
  /\ output_df = NoDataFrame
  /\ output_metadata = NoMetadata
  /\ round_mode = "half_to_even"
  /\ StrategyIdle
  /\ RunIdle
  /\ OptionsIdle
  /\ AggregateIdle
  /\ ParallelIdle
  /\ OrderIdle
  /\ EncodeIdle

\* the dequantization step of stream_transform_aspect under the
\* configuration build_transformation_configs derives from a raw class
dequantize_under(cls, dct) ==
  IF TaggedDequant(cls) = << >> THEN dct
  ELSE LET rules == dequant_config_of(cls)
       IN IF rules.divisor # 0
          THEN DequantizeFields(dct, rules.fields, rules.divisor, 1)
          ELSE dct

\* the record is transformed under the shipped class
TransformShipped ==
  /\ pc = "tag"
  /\ dequantized' =
       << dequantize_under(ASPECT_TO_RAW_SCHEMA_MAP[tag.aspect], tag_record) >>
  /\ pc' = "tagged"
  /\ UNCHANGED << tag, tag_record, aspect_name, raw_bytes, skip_on_error, i,
                  raw_models, j, clean_models, dataframe, error, exit_code,
                  steps, log, cvars, evars, rvars, avars, nvars, wvars,
                  ovars, svars >>

\* the tag is added, the configuration is built again and the same record
\* is transformed
TransformTagged ==
  /\ pc = "tagged"
  /\ dequantized' =
       Append(dequantized,
              dequantize_under(
                with_tag(ASPECT_TO_RAW_SCHEMA_MAP[tag.aspect], tag.field,
                         tag.divisor),
                tag_record))
  /\ pc' = "exit"
  /\ UNCHANGED << tag, tag_record, aspect_name, raw_bytes, skip_on_error, i,
                  raw_models, j, clean_models, dataframe, error, exit_code,
                  steps, log, cvars, evars, rvars, avars, nvars, wvars,
                  ovars, svars >>

NextTag ==
  \/ TransformShipped
  \/ TransformTagged

SpecTag == InitTag /\ [][NextTag]_vars

\* C27: each tagged field is dequantized by the divisor declared on that
\* field: a dequantize_by tag with divisor d added to one field of an
\* aspect makes the transformer divide that field by d and leaves the
\* divisor applied to every other field of the aspect as it was
C27_DivisorPerField ==
  Len(dequantized) = 2 =>
    /\ dequantized[2][tag.field] = Divide(tag_record[tag.field], tag.divisor)
    /\ \A f \in DOMAIN tag_record :
         f # tag.field => dequantized[2][f] = dequantized[1][f]

\* ------------------------------------------------ List(Struct) columns
\* a struct cell: the values of its fields; a null struct is VNone
VStruct(name, score) ==
  [k |-> "struct", f |-> [name |-> name, score |-> score]]

PlayersDtype == "List(Struct(name: Utf8, score: Int32))"

\* dtype.inner.fields
StructFieldsOf(dtype) ==
  IF dtype = PlayersDtype
  THEN << [name |-> "name", dtype |-> "Utf8"],
          [name |-> "score", dtype |-> "Int32"] >>
  ELSE << >>

\* struct.get(f_def.name) if struct else None
StructGet(struct, field) ==
  IF struct.k = "none" THEN VNone ELSE struct.f[field]

\* flat_vals[field] after the loop over the series: row by row, and within
\* a row struct by struct; a null list adds nothing
flat_vals(values, field) ==
  Join([p \in 1..Len(values) |->
          IF values[p].k = "none" THEN << >>
          ELSE [q \in 1..Len(values[p].items) |->
                  StructGet(values[p].items[q], field)]])

\* variant: a null list adds no entry to the offsets
RECURSIVE list_offs_skipping_nulls(_, _)
list_offs_skipping_nulls(values, struct_count) ==
  IF values = << >> THEN << >>
  ELSE IF Head(values).k = "none"
  THEN list_offs_skipping_nulls(Tail(values), struct_count)
  ELSE << struct_count + Len(Head(values).items) >>
         \o list_offs_skipping_nulls(Tail(values),
              struct_count + Len(Head(values).items))

\* list_offs after the loop over the series, without its leading 0: after
\* each row, struct_count is appended
RECURSIVE list_offs_after(_, _)
list_offs_after(values, struct_count) ==
  IF values = << >> THEN << >>
  ELSE IF Head(values).k = "none"
  THEN << struct_count >> \o list_offs_after(Tail(values), struct_count)
  ELSE << struct_count + Len(Head(values).items) >>
         \o list_offs_after(Tail(values),
              struct_count + Len(Head(values).items))

\* the schema entry of a List(Struct) column
StructEntry(name, dtype, list_offsets_key, struct_fields) ==
  [name |-> name, dtype |-> dtype, list_offsets_key |-> list_offsets_key,
   struct_fields |-> struct_fields]

\* blobs.update(f_blobs) and struct_schemas.extend(f_sch), field by field
RECURSIVE collect_fields(_, _, _, _, _, _)
collect_fields(values, base_name, fields, keys, blobs, entries) ==
  IF fields = << >>
  THEN [ok |-> TRUE, error |-> "", keys |-> keys, blobs |-> blobs,
        entries |-> entries]
  ELSE LET f_def == Head(fields)
           f_enc == series_to_bytes_recursive(
                      Series(f_def.name, f_def.dtype,
                             flat_vals(values, f_def.name)),
                      base_name \o "__" \o f_def.name)
       IN IF ~f_enc.ok THEN EncodeFailure(f_enc.error)
          ELSE collect_fields(values, base_name, Tail(fields),
                              keys \o f_enc.keys, f_enc.blobs @@ blobs,
                              entries \o f_enc.entries)

\* _series_to_bytes_recursive, the List(Struct) branch
list_struct_to_bytes(column, base_name) ==
  LET offs_key == base_name \o "_list_offs"
      enc == collect_fields(column.values, base_name,
                            StructFieldsOf(column.dtype), << offs_key >>,
                            offs_key :>
                              OffsetBytes(<< 0 >>
                                \o list_offs_after(column.values, 0)),
                            << >>)
  IN IF ~enc.ok THEN enc
     ELSE [enc EXCEPT !.entries =
             << StructEntry(base_name, column.dtype, offs_key,
                            enc.entries) >>]

\* the structs and the list cells of the players column
Player(name, score) == VStruct(VStr(name), VInt(score))

PlayerCells ==
  { VNone,
    VList(<< >>),
    VList(<< Player("a", 1) >>),
    VList(<< Player("bb", 2), Player("ccc", 3) >>),
    VList(<< Player("ccc", 3), Player("a", 1) >>),
    VList(<< VStruct(VNone, VInt(2)) >>),
    VList(<< Player("a", 1), VStruct(VStr("bb"), VNone) >>),
    VList(<< VNone >>) }

InitEncode ==
  /\ list_series \in
       { Series("players", PlayersDtype, values) :
           values \in SeqsUpTo(PlayerCells, MaxStructRows) }
  /\ encoded = << >>
  /\ pc = "encode"
  /\ steps = << >>
  /\ error = ""
  /\ exit_code = -1
  /\ log = << >>
  /\ aspect_name = ""
  /\ raw_bytes = << >>
  /\ skip_on_error = FALSE
  /\ i = 0
  /\ raw_models = << >>
  /\ j = 0
  /\ clean_models = << >>
  /\ dataframe = NoDataFrame
  /\ df = NoDataFrame
  /\ contract = NoContract
  /\ col_index = 0
  /\ output_df = NoDataFrame
  /\ output_metadata = NoMetadata
  /\ round_mode = "half_to_even"
  /\ StrategyIdle
  /\ RunIdle
  /\ OptionsIdle
  /\ AggregateIdle
  /\ ParallelIdle
  /\ OrderIdle
  /\ TagIdle

\* the variables the encoder leaves alone
zvars ==
  << list_series, aspect_name, raw_bytes, skip_on_error, i, raw_models, j,
     clean_models, dataframe, exit_code, steps, log, cvars, evars, rvars,
     avars, nvars, wvars, ovars, tvars >>

\* _series_to_bytes_recursive returns the blobs and the schema entry
EncodeReturns ==
  /\ pc = "encode"
  /\ list_struct_to_bytes(list_series, list_series.name).ok
  /\ encoded' = << list_struct_to_bytes(list_series, list_series.name) >>
  /\ pc' = "encoded"
  /\ UNCHANGED << error, zvars >>

\* the recursion on a field raises: a null in a field that is not a float
EncodeRaises ==
  /\ pc = "encode"
  /\ ~list_struct_to_bytes(list_series, list_series.name).ok
  /\ error' = list_struct_to_bytes(list_series, list_series.name).error
  /\ pc' = "exit"
  /\ UNCHANGED << encoded, zvars >>

NextEncode ==
  \/ EncodeReturns
  \/ EncodeRaises

SpecEncode == InitEncode /\ [][NextEncode]_vars

\* ------------------------------------------ claims on the struct encoder
\* the uint32 values a blob of little-endian offsets holds
U32s(bytes) ==
  [x \in 1..(Len(bytes) \div 4) |->
     bytes[4 * x - 3].b + 256 * bytes[4 * x - 2].b
       + 65536 * bytes[4 * x - 1].b + 16777216 * bytes[4 * x].b]

\* the structs of the column: row p, position q
StructCells(values) ==
  { << p, q >> \in (1..Len(values)) \X (1..2) :
      values[p].k # "none" /\ q <= Len(values[p].items) }

\* the bytes of a name: a null name takes none
NameBytes(struct) ==
  IF StructGet(struct, "name").k = "none" THEN << >>
  ELSE utf8_encode(StructGet(struct, "name").s)

\* the rows of S6
S6Rows ==
  << VList(<< Player("a", 1) >>), VList(<< >>),
     VList(<< Player("bb", 2), Player("ccc", 3) >>) >>

\* C30: for a List(Struct) column the encoder emits {base}_list_offs with
\* num_rows + 1 non-decreasing entries from 0 to the number of structs, a
\* null list counting as empty, and encodes each struct field under
\* {base}__{field} from the flattened values, one per struct, in row and
\* then position order; S6 gives list_offs [0,1,1,3], name offsets
\* [0,1,3,6] and the scores 1, 2, 3
C30_ListOfStruct ==
  encoded # << >> =>
    LET values == list_series.values
        blobs == encoded[1].blobs
        offs == U32s(blobs["players_list_offs"])
        name_offs == U32s(blobs["players__name_offs"])
        name_data == blobs["players__name_data"]
        score_bin == blobs["players__score_bin"]
        count == Cardinality(StructCells(values))
    IN /\ encoded[1].keys = << "players_list_offs", "players__name_offs",
                               "players__name_data", "players__score_bin" >>
       /\ Len(offs) = Len(values) + 1
       /\ offs[1] = 0
       /\ \A p \in 1..Len(values) :
            /\ offs[p] <= offs[p + 1]
            /\ values[p].k = "none" => offs[p + 1] = offs[p]
       /\ offs[Len(offs)] = count
       /\ Len(name_offs) = count + 1
       /\ Len(score_bin) = 4 * count
       /\ \A c \in StructCells(values) :
            LET at == offs[c[1]] + c[2]
                struct == values[c[1]].items[c[2]]
            IN /\ at <= offs[c[1] + 1]
               /\ SubSeq(name_data, name_offs[at] + 1, name_offs[at + 1])
                    = NameBytes(struct)
               /\ SubSeq(score_bin, 4 * at - 3, 4 * at)
                    = LittleEndian(StructGet(struct, "score").n, 4)
       /\ values = S6Rows =>
            /\ offs = << 0, 1, 1, 3 >>
            /\ name_offs = << 0, 1, 3, 6 >>
            /\ name_data = utf8_encode("a") \o utf8_encode("bb")
                             \o utf8_encode("ccc")
            /\ U32s(score_bin) = << 1, 2, 3 >>

\* S6 is encoded
C30_Witness ==
  /\ encoded # << >>
  /\ list_series.values = S6Rows
  /\ encoded[1].ok

====
